---- MODULE Spec2Model ----
(***************************************************************************)
(* GraviTool: the external tool invoker (run_starter_command) and the      *)
(* asset packager (TextureModTool._package_asset_archive), as implemented  *)
(* in src/gravitool_main.py and in its sibling copy src/cnpmodtool.py.     *)
(*                                                                         *)
(* Strings and paths are sequences of tokens (<<"R1", "/", "starter.exe">>)*)
(* so that joining, prefixing and suffix stripping are computed, not       *)
(* assumed.  The empty string is <<>>; Python's None is the value None.    *)
(***************************************************************************)
EXTENDS Integers, Sequences, FiniteSets, TLC

\* ---------------------------------------------------------------- bounds
MaxParams == 2      \* longest parameter list handed to run_starter_command
MaxCalls == 1       \* invocations of _package_asset_archive per run
MaxEntries == 2     \* longest files_to_package list
MaxSec == 1         \* wall-clock seconds the clock can advance to
MaxUsec == 1
MaxExts == 2
MaxNameLen == 3
MaxPad == 1
MaxInitCalls == 2        \* microsecond values the clock can show

\* ------------------------------------------------------- strings, paths
None == <<"<None>">>

Roots == {"R1", "R2"}

StarterExeName == <<"starter.exe">>

RECURSIVE Join(_, _)
\* sep.join(seq) of Python: the separator goes between the pieces only.
Join(sep, seq) ==
    IF seq = <<>> THEN <<>>
    ELSE IF Len(seq) = 1 THEN seq[1]
    ELSE seq[1] \o sep \o Join(sep, Tail(seq))

\* os.path.join(a, b): an absolute b discards a; otherwise one separator
\* is put between a and b unless a is empty or already ends in one.
OsPathJoin(a, b) ==
    IF b # <<>> /\ Head(b) = "/" THEN b
    ELSE IF a = <<>> \/ a[Len(a)] = "/" THEN a \o b
    ELSE a \o <<"/">> \o b

VARIABLES
    variant,            \* which copy of the program runs: "gravi" or "cnp"
    GAME_ROOT_DIR,      \* global, "" when unset
    STARTER_EXE_PATH,   \* global, "" when unset
    game_root_var,      \* the Game Root entry field of the GUI
    dirRoots,           \* file system: the roots that are directories
    exeRoots,           \* file system: the roots that hold starter.exe
    rsc,                \* the last run_starter_command call and its result
    clock,              \* wall clock: [sec, usec]
    staging,            \* staging directories under <root>/users/modwork
    packedDir,          \* whether CORE/shared/packed_data exists
    packed,             \* CORE/shared/packed_data/<stem>.flatdata
    pkg,                \* the running or last _package_asset_archive call
    rmFaults            \* whether directory removal can fail in this run

cfgVars == <<GAME_ROOT_DIR, STARTER_EXE_PATH, game_root_var>>
fsRootVars == <<dirRoots, exeRoots>>
pkgVars == <<clock, staging, packedDir, packed, pkg>>

\* The state of the other operations of the tool.
VARIABLES
    nameIn,             \* a staging filename handed to the flatlist loop
    nameOut,            \* the flatlist entry name computed for it
    slugIn,             \* the Mod Name of the GUI
    slugOut,            \* the install-path segment made of it
    tpl,                \* docs/modwork/stencil/desc_example.addpack.engcfg2
    gen,                \* the running _generate_desc_addpack_file call
    descFile,           \* CORE/desc.addpack of the mod project
    coreDir,            \* the CORE directory of the mod project exists
    tmpFiles,           \* the _temp_desc files under users/modwork
    mod_project_dir_var,\* the Mod Project Directory field of the GUI
    ws,                 \* the mod project directory on disk
    imf,                \* the running initialize_mod_folders call
    op,                 \* the GUI handler in progress
    arc,                \* create_mod_archive: its files and its call
    ex                  \* texture extraction: its files and its call

nameVars == <<nameIn, nameOut>>
slugVars == <<slugIn, slugOut>>
descVars == <<tpl, gen, descFile, coreDir, tmpFiles>>
layoutVars == <<mod_project_dir_var, ws, imf>>
runVars == <<op, arc, ex>>
extVars == <<nameVars, slugVars, descVars, layoutVars, runVars>>

\* The invoker and the packager.
packVars == <<GAME_ROOT_DIR, STARTER_EXE_PATH, game_root_var,
              dirRoots, exeRoots, rsc,
              clock, staging, packedDir, packed, pkg, rmFaults>>

vars == <<variant, GAME_ROOT_DIR, STARTER_EXE_PATH, game_root_var,
          dirRoots, exeRoots, rsc,
          clock, staging, packedDir, packed, pkg, rmFaults, extVars>>

\* -------------------------------------------------------- file system
IsDir(p) == \E r \in dirRoots : p = <<r>>

PathExists(p) ==
    \/ IsDir(p)
    \/ \E r \in exeRoots : p = OsPathJoin(<<r>>, StarterExeName)

\* ------------------------------------------------ global configuration
StarterExePathFor(root) ==
    IF root # <<>> THEN OsPathJoin(root, StarterExeName) ELSE <<>>

\* update_starter_exe_path(): the executable path follows the root.
update_starter_exe_path(root) == StarterExePathFor(root)

\* ------------------------------------------------- run_starter_command
Commands == {<<"unflat">>, <<"mkflat">>}

ParamValues == {None, <<>>, <<"p">>, <<"/", "q">>}

ParamLists == UNION {[1..n -> ParamValues] : n \in 0..MaxParams}

Outcomes == {"exit0", "exit1", "timeout", "oserror"}

Outputs == {<<>>, <<"text">>}

\* ParamStr as a bare str(p): None becomes the text "None".
ParamStr_strNone(p) == IF p # None THEN p ELSE <<"None">>

\* lambda p: str(p) if p is not None else ""
ParamStr(p) == IF p # None THEN p ELSE <<>>

ParamStrs(params) == [i \in 1..Len(params) |-> ParamStr(params[i])]

\* The composite argument: the command name, then, for a non-empty
\* parameter list only, a comma and the comma-joined parameters.
CmdStringPart(command_name, params_list) ==
    IF params_list # <<>>
    THEN command_name \o <<",">> \o Join(<<",">>, ParamStrs(params_list))
    ELSE command_name

\* ConfigOk with the root directory guard lost.
ConfigOk_exeOnly ==
    STARTER_EXE_PATH # <<>> /\ PathExists(STARTER_EXE_PATH)

\* The two guards that precede the launch.
ConfigOk ==
    /\ STARTER_EXE_PATH # <<>> /\ PathExists(STARTER_EXE_PATH)
    /\ GAME_ROOT_DIR # <<>> /\ IsDir(GAME_ROOT_DIR)

\* UnflatOutputPath with the test of the command name lost.
UnflatOutputPath_anyCommand(command_name, params_list) ==
    IF /\ Len(params_list) > 1
       /\ params_list[2] # None /\ params_list[2] # <<>>
    THEN OsPathJoin(GAME_ROOT_DIR, params_list[2])
    ELSE None

\* The second return value on a zero exit code.
UnflatOutputPath(command_name, params_list) ==
    IF /\ command_name = <<"unflat">>
       /\ Len(params_list) > 1
       /\ params_list[2] # None /\ params_list[2] # <<>>
    THEN OsPathJoin(GAME_ROOT_DIR, params_list[2])
    ELSE None

\* What the log receives between the launch and the return.
CommunicateLog(stdout, stderr) ==
    (IF stdout # <<>> THEN <<"Output">> ELSE <<>>)
    \o (IF stderr # <<>> THEN <<"Errors">> ELSE <<>>)
    \o <<"Command finished">>

\* ProcAfter with the kill on timeout lost.
ProcAfter_timeoutLeftRunning(outcome) ==
    CASE outcome = "oserror" -> "none"
      [] outcome = "timeout" -> "running"
      [] OTHER -> "exited"

\* The state of the child process when run_starter_command returns.
ProcAfter(outcome) ==
    CASE outcome = "oserror" -> "none"
      [] outcome = "timeout" -> "killed"
      [] OTHER -> "exited"

\* LaunchedResult taking text on stderr for a failure.
LaunchedResult_stderrFails(command_name, params_list, outcome, stdout, stderr) ==
    IF outcome = "exit0" /\ stderr = <<>>
    THEN [ok |-> TRUE, path |-> UnflatOutputPath(command_name, params_list)]
    ELSE [ok |-> FALSE, path |-> None]

\* (success, output path) once the process was launched.
LaunchedResult(command_name, params_list, outcome, stdout, stderr) ==
    CASE outcome = "exit0" ->
            [ok |-> TRUE, path |-> UnflatOutputPath(command_name, params_list)]
      [] outcome = "exit1" -> [ok |-> FALSE, path |-> None]
      [] outcome = "timeout" -> [ok |-> FALSE, path |-> None]
      [] OTHER -> [ok |-> FALSE, path |-> None]

\* run_starter_command(command_name, params_list, log, timeout) in the
\* current configuration, for one behaviour of the child process:
\* "exit0"/"exit1" it exits in time with that code, "timeout" it is still
\* running when the timeout elapses, "oserror" Popen raises.
RunStarter(command_name, params_list, outcome, stdout, stderr) ==
    IF ~ConfigOk
    THEN [cmd |-> command_name, params |-> params_list, config |-> FALSE,
          launched |-> FALSE, argv |-> <<>>, cwd |-> <<>>,
          outcome |-> "none", stdout |-> <<>>, stderr |-> <<>>,
          proc |-> "none", log |-> <<"Error">>,
          ok |-> FALSE, path |-> None]
    ELSE LET r == LaunchedResult(command_name, params_list, outcome,
                                 stdout, stderr)
             ran == outcome \in {"exit0", "exit1"}
         IN [cmd |-> command_name, params |-> params_list, config |-> TRUE,
             launched |-> outcome # "oserror",
             argv |-> <<STARTER_EXE_PATH,
                        CmdStringPart(command_name, params_list)>>,
             cwd |-> GAME_ROOT_DIR,
             outcome |-> outcome,
             stdout |-> IF ran THEN stdout ELSE <<>>,
             stderr |-> IF ran THEN stderr ELSE <<>>,
             proc |-> ProcAfter(outcome),
             log |-> <<"Running", "Working directory">>
                     \o (IF ran THEN CommunicateLog(stdout, stderr)
                         ELSE <<>>)
                     \o (IF outcome = "exit0" THEN <<>> ELSE <<"Error">>),
             ok |-> r.ok, path |-> r.path]

NoCall ==
    [cmd |-> <<>>, params |-> <<>>, config |-> FALSE, launched |-> FALSE,
     argv |-> <<>>, cwd |-> <<>>, outcome |-> "none", stdout |-> <<>>,
     stderr |-> <<>>, proc |-> "none", log |-> <<>>, ok |-> FALSE,
     path |-> None]

\* ------------------------------------------------- configuration, GUI
RootStrings == {<<>>} \cup {<<r>> : r \in Roots}

\* No call is running.  Every action below that is not itself a call
\* of run_starter_command drops the record of the last call: its result
\* was consumed by the caller when it returned.
Idle == pkg.pc = "idle"

\* The user types into the Game Root entry field.
EditGameRootField(v) ==
    /\ Idle
    /\ v # game_root_var
    /\ game_root_var' = v
    /\ rsc' = NoCall
    /\ UNCHANGED <<variant, GAME_ROOT_DIR, STARTER_EXE_PATH, fsRootVars,
                   pkgVars, rmFaults, extVars>>

\* set_game_root(): the directory dialog returned a directory.
set_game_root(directory) ==
    /\ Idle
    /\ directory # <<>>
    /\ game_root_var' = directory
    /\ GAME_ROOT_DIR' = directory
    /\ STARTER_EXE_PATH' = update_starter_exe_path(directory)
    /\ rsc' = NoCall
    /\ UNCHANGED <<variant, fsRootVars, pkgVars, rmFaults, extVars>>

\* _validate_paths(check_starter=...): the globals are reloaded from the
\* entry field; the executable path is refreshed only past the root check
\* and only when check_starter is set.
validate_paths(check_starter) ==
    /\ Idle
    /\ GAME_ROOT_DIR' = game_root_var
    /\ STARTER_EXE_PATH' =
         IF game_root_var # <<>> /\ IsDir(game_root_var) /\ check_starter
         THEN update_starter_exe_path(game_root_var)
         ELSE STARTER_EXE_PATH
    /\ rsc' = NoCall
    /\ UNCHANGED <<variant, game_root_var, fsRootVars, pkgVars,
                   rmFaults, extVars>>

\* The file system changes under the program: a root directory appears
\* or disappears (with the starter.exe in it).
EnvRootDirChange(r) ==
    /\ \A d \in DOMAIN staging : Head(d) # r
    /\ IF r \in dirRoots
       THEN dirRoots' = dirRoots \ {r} /\ exeRoots' = exeRoots \ {r}
       ELSE dirRoots' = dirRoots \cup {r} /\ exeRoots' = exeRoots
    /\ rsc' = NoCall
    /\ UNCHANGED <<variant, cfgVars, pkgVars, rmFaults, extVars>>

\* The file system changes under the program: starter.exe appears in a
\* root directory or disappears from it.
EnvStarterExeChange(r) ==
    /\ r \in dirRoots
    /\ exeRoots' = IF r \in exeRoots THEN exeRoots \ {r}
                   ELSE exeRoots \cup {r}
    /\ rsc' = NoCall
    /\ UNCHANGED <<variant, cfgVars, dirRoots, pkgVars, rmFaults, extVars>>

\* A direct call of run_starter_command (the conversion and unpack
\* operations), for any command, parameter list and child behaviour.
run_starter_command(command_name, params_list, outcome, stdout, stderr) ==
    /\ Idle
    /\ rsc = NoCall
    /\ LET r == RunStarter(command_name, params_list, outcome, stdout,
                           stderr)
       IN rsc' = r
    /\ UNCHANGED <<variant, cfgVars, fsRootVars, pkgVars, rmFaults, extVars>>

\* ------------------------------------------- _package_asset_archive
Stems == {"textures", "sounds"}

\* flatdata_definitions: the mkflat type and the source folders of a stem.
MkflatType(stem) == IF stem = "textures" THEN "texture" ELSE "sound"

SourceFolders(stem) ==
    IF stem = "textures" THEN {"prepared_textures"}
    ELSE {"prepared_sounds/sfx", "prepared_sounds/speech"}

\* The prepared assets of the mod project: (source folder, filename).
Assets ==
    {[folder |-> "prepared_textures", name |-> <<"a", ".texture">>],
     [folder |-> "prepared_textures", name |-> <<"b", ".texture">>],
     [folder |-> "prepared_sounds/sfx",
      name |-> <<"x", ".loc_def", ".sound">>],
     [folder |-> "prepared_sounds/speech",
      name |-> <<"x", ".loc_def", ".sound">>]}

AssetsOf(stem) == {a \in Assets : a.folder \in SourceFolders(stem)}

\* files_to_package lists handed to the packager for a stem: selected
\* list entries of the stem's folders, each listed file at most once.
JobsOf(stem) ==
    {job \in UNION {[1..n -> AssetsOf(stem)] : n \in 0..MaxEntries} :
        \A i, j \in 1..Len(job) : i # j => job[i] # job[j]}

\* A filename is its dot-free base name followed by its dotted parts.
ExtToks == {".texture", ".TEXTURE", ".sound", ".SOUND",
            ".loc_def", ".LOC_DEF", ".aaf", ".xWMA", ".dds"}

\* str.lower() on one token of a filename.
LowerTok(t) ==
    CASE t = ".TEXTURE" -> ".texture"
      [] t = ".LOC_DEF" -> ".loc_def"
      [] t = ".SOUND" -> ".sound"
      [] t = ".xWMA" -> ".xwma"
      [] t = ".GT2EXTENSION" -> ".gt2extension"
      [] OTHER -> t

LastTok(name) == LowerTok(name[Len(name)])

DropLast(name, n) == SubSeq(name, 1, Len(name) - n)

\* FlatlistEntryName_gravi dropping the plain extension instead.
FlatlistEntryName_gravi_splitext(staging_filename) ==
    IF Len(staging_filename) >= 2 THEN DropLast(staging_filename, 1)
    ELSE staging_filename

\* gravitool_main.py: strip ".loc_def.sound", else ".texture", else
\* keep the filename as it is.
FlatlistEntryName_gravi(staging_filename) ==
    IF /\ Len(staging_filename) >= 2
       /\ LastTok(staging_filename) = ".sound"
       /\ LowerTok(staging_filename[Len(staging_filename) - 1]) = ".loc_def"
    THEN DropLast(staging_filename, 2)
    ELSE IF Len(staging_filename) >= 1
            /\ LastTok(staging_filename) = ".texture"
    THEN DropLast(staging_filename, 1)
    ELSE staging_filename

\* os.path.splitext: the extension is the part from the last dot.
IsExtTok(t) == t \in ExtToks

\* cnpmodtool.py: os.path.splitext drops the last extension, then a
\* trailing ".loc_def" is dropped.
FlatlistEntryName_cnp(staging_filename) ==
    LET base == IF Len(staging_filename) >= 2
                   /\ IsExtTok(staging_filename[Len(staging_filename)])
                THEN DropLast(staging_filename, 1)
                ELSE staging_filename
    IN IF Len(base) >= 1 /\ LastTok(base) = ".loc_def"
       THEN DropLast(base, 1)
       ELSE base

FlatlistEntryName(v, staging_filename) ==
    IF v = "gravi" THEN FlatlistEntryName_gravi(staging_filename)
    ELSE FlatlistEntryName_cnp(staging_filename)

\* The lines of the flatlist text.
HeaderLine == [kind |-> "header", name |-> <<>>, type |-> ""]
EntryLine(n, t) == [kind |-> "entry", name |-> n, type |-> t]
CloseLine == [kind |-> "close", name |-> <<>>, type |-> ""]

\* get_unique_timestamp_suffix(): seconds, then the microsecond part.
get_unique_timestamp_suffix(clk) ==
    <<ToString(clk.sec), "_", ToString(clk.usec)>>

\* The staging directory name: gravitool_main.py appends the unique
\* suffix, cnpmodtool.py the time in whole seconds.
StagingDirName(v, stem, clk) ==
    IF v = "gravi"
    THEN <<"_mkflat_stage_", stem, "_">> \o get_unique_timestamp_suffix(clk)
    ELSE <<"_mkflat_stage_", stem, "_", ToString(clk.sec)>>

ModworkRel(name) == <<"users", "/", "modwork", "/">> \o name

\* File contents of an archive; "absent" stands for no file.
NoFile == [tag |-> "absent", lines |-> <<>>, files |-> {}]
OldArchive == [tag |-> "old", lines |-> <<>>, files |-> {}]
PartialFile == [tag |-> "partial", lines |-> <<>>, files |-> {}]

EmptyDir == [files |-> {}, flatlist |-> <<>>, flatdata |-> NoFile]

\* What mkflat packs: the flatlist and the files beside it.
ArchiveOf(dir) ==
    [tag |-> "archive", lines |-> dir.flatlist, files |-> dir.files]

RemoveTree(st, d) == [x \in DOMAIN st \ {d} |-> st[x]]

\* os.makedirs(dir, exist_ok=True)
MakeDirs(st, d) ==
    IF d \in DOMAIN st THEN st
    ELSE [x \in DOMAIN st \cup {d} |-> IF x = d THEN EmptyDir ELSE st[x]]

\* shutil.copy2 into the staging directory, under the staging filename.
CopyInto(st, d, e) ==
    [st EXCEPT ![d].files = {f \in @ : f.name # e.name} \cup {e}]

RmOutcomes == IF rmFaults THEN BOOLEAN ELSE {TRUE}

\* The staging directory an invocation made and the clock reading it
\* named it from; NoStaging before any was made.
NoStaging == [dir |-> <<>>, sec |-> -1, usec |-> -1]

\* The call record: the locals of the running call (pc .. assets_copied)
\* and the record of what the call met and did (nEntries .. staging0).
NoPkg ==
    [pc |-> "idle", calls |-> 0, result |-> "none",
     stem |-> "", ftype |-> "", entries |-> <<>>, root |-> <<>>,
     dir |-> <<>>, dir_rel |-> <<>>, i |-> 0, flatlist_content |-> <<>>,
     assets_copied |-> <<>>,
     nEntries |-> 0, nMissing |-> 0, nCopied |-> 0,
     copyError |-> FALSE, writeError |-> FALSE,
     invoked |-> FALSE, mkOutcome |-> "none", mkWrote |-> FALSE,
     mkExists |-> FALSE,
     mvOutcome |-> "none",
     packed0 |-> packed, packedDir0 |-> packedDir,
     staging0 |-> staging,
     lastCall |-> NoStaging, prevCall |-> NoStaging]

\* return <result>: the locals of the call are gone.
Return(p, result) ==
    [p EXCEPT !.pc = "idle", !.result = result,
              !.entries = <<>>, !.i = 0, !.flatlist_content = <<>>,
              !.assets_copied = <<>>]

\* "if os.path.exists(staging): shutil.rmtree(staging)" followed by
\* "return <result>", outside any try block: a failing removal raises.
CleanupAndReturn(st, p, result, rmOk) ==
    /\ staging' = IF rmOk THEN RemoveTree(st, p.dir) ELSE st
    /\ pkg' = Return(p, IF rmOk THEN result ELSE "raised")

\* NothingToPackage with the early return lost.
NothingToPackage_never(files_to_package) == FALSE

\* "if not files_to_package: return True"
NothingToPackage(files_to_package) == files_to_package = <<>>

\* Entry of _package_asset_archive(flatlist_name_stem, mkflat_file_type,
\* files_to_package, game_root_dir, core_dir_abs), called with the Game
\* Root field as game_root_dir: an empty list returns True at once,
\* otherwise the staging directory is made and the copy loop starts.
\* (PackageCallWithin: the same for a run of at most "limit" invocations;
\* an invocation that names a staging directory reads the clock later
\* than the invocation before it did.)
PackageCallSteps(limit, stem, files_to_package) ==
    /\ Idle
    /\ pkg.calls < limit
    /\ <<clock.sec, clock.usec>> # <<pkg.lastCall.sec, pkg.lastCall.usec>>
    /\ LET p0 == [NoPkg EXCEPT !.calls = pkg.calls + 1, !.stem = stem,
                               !.ftype = MkflatType(stem),
                               !.entries = files_to_package,
                               !.nEntries = Len(files_to_package),
                               !.root = game_root_var,
                               !.lastCall = pkg.lastCall,
                               !.prevCall = pkg.lastCall]
           rel == ModworkRel(StagingDirName(variant, stem, clock))
           d == OsPathJoin(game_root_var, rel)
       IN IF NothingToPackage(files_to_package)
          THEN /\ pkg' = Return(p0, "ok")
               /\ staging' = staging
          ELSE /\ staging' = MakeDirs(staging, d)
               /\ pkg' = [p0 EXCEPT !.dir = d, !.dir_rel = rel, !.i = 1,
                                    !.flatlist_content = <<HeaderLine>>,
                                    !.lastCall = [dir |-> d,
                                                  sec |-> clock.sec,
                                                  usec |-> clock.usec],
                                    !.pc = IF Len(files_to_package) >= 1
                                           THEN "copy" ELSE "flatlist"]
    /\ rsc' = NoCall
    /\ UNCHANGED <<variant, cfgVars, fsRootVars, clock, packedDir, packed,
                   rmFaults>>

PackageCallWithin(limit, stem, files_to_package) ==
    /\ PackageCallSteps(limit, stem, files_to_package)
    /\ UNCHANGED extVars

PackageCall(stem, files_to_package) ==
    PackageCallWithin(MaxCalls, stem, files_to_package)

\* AddFlatlistEntry leaving out a name the flatlist already lists.
AddFlatlistEntry_dedup(content, staging_filename, mkflat_file_type) ==
    LET line == EntryLine(FlatlistEntryName(variant, staging_filename),
                          mkflat_file_type)
    IN IF \E k \in 1..Len(content) : content[k] = line THEN content
       ELSE Append(content, line)

\* "flatlist_content += ..." in the loop: one line for the entry, with
\* its flatlist entry name and the mkflat type, whatever the copy does.
AddFlatlistEntry(content, staging_filename, mkflat_file_type) ==
    Append(content, EntryLine(FlatlistEntryName(variant, staging_filename),
                              mkflat_file_type))

\* NextEntry leaving the loop after the first entry.
NextEntry_stops(p) == [p EXCEPT !.pc = "flatlist"]

\* After an entry of the loop: the next entry, or the code after the loop.
NextEntry(p) ==
    IF p.i < Len(p.entries) THEN [p EXCEPT !.i = p.i + 1]
    ELSE [p EXCEPT !.pc = "flatlist"]

\* MissingSource with the abort lost: every missing source is skipped.
MissingSource_alwaysSkips(p, rmOk) ==
    /\ pkg' = NextEntry(p)
    /\ staging' = staging

\* The else branch of "if os.path.exists(abs_src_path_in_project)":
\* cnpmodtool.py removes the staging directory and returns False,
\* gravitool_main.py skips the entry and continues.
MissingSource(p, rmOk) ==
    IF variant = "cnp"
    THEN CleanupAndReturn(staging, p, "fail", rmOk)
    ELSE /\ pkg' = NextEntry(p)
         /\ staging' = staging

\* One iteration of the copy loop: the flatlist line is appended, then
\* the source is copied into staging if it exists.  The mod project is
\* outside the program's control: os.path.exists(source) may answer
\* either way ("exists"), and shutil.copy2 may raise ("copyOk").
PkgCopy ==
    /\ pkg.pc = "copy"
    /\ LET e == pkg.entries[pkg.i]
           p1 == [pkg EXCEPT !.flatlist_content =
                     AddFlatlistEntry(@, e.name, pkg.ftype)]
       IN \E exists \in BOOLEAN, copyOk \in BOOLEAN, rmOk \in RmOutcomes :
            IF exists
            THEN IF copyOk
                 THEN /\ staging' = CopyInto(staging, pkg.dir, e)
                      /\ pkg' = NextEntry(
                            [p1 EXCEPT !.nCopied = @ + 1,
                                       !.assets_copied =
                                          IF variant = "gravi"
                                          THEN Append(@, e) ELSE @])
                 ELSE CleanupAndReturn(staging,
                                       [p1 EXCEPT !.copyError = TRUE],
                                       "fail", rmOk)
            ELSE MissingSource([p1 EXCEPT !.nMissing = @ + 1], rmOk)
    /\ UNCHANGED <<variant, cfgVars, fsRootVars, rsc, clock,
                   packedDir, packed, rmFaults, extVars>>

\* gravitool_main.py only: "if not assets_copied_for_mkflat" after the loop.
NothingCopied(p) == variant = "gravi" /\ p.assets_copied = <<>>

\* After the loop: the flatlist is closed and written into staging.
PkgFlatlist ==
    /\ pkg.pc = "flatlist"
    /\ \E writeOk \in BOOLEAN, rmOk \in RmOutcomes :
         IF NothingCopied(pkg)
         THEN CleanupAndReturn(staging, pkg, "ok", rmOk)
         ELSE LET content == Append(pkg.flatlist_content, CloseLine)
              IN IF writeOk
                 THEN /\ staging' = [staging EXCEPT
                                       ![pkg.dir].flatlist = content]
                      /\ pkg' = [pkg EXCEPT !.flatlist_content = content,
                                            !.pc = "mkflat"]
                 ELSE CleanupAndReturn(staging,
                                       [pkg EXCEPT !.writeError = TRUE],
                                       "fail", rmOk)
    /\ UNCHANGED <<variant, cfgVars, fsRootVars, rsc, clock,
                   packedDir, packed, rmFaults, extVars>>

\* MkflatRejected looking at the output file only, not at the exit.
MkflatRejected_exitIgnored(mk_success, exists) == ~exists

\* "if not mk_success or not os.path.exists(flatdata_output_in_staging)"
MkflatRejected(mk_success, exists) == ~mk_success \/ ~exists

\* The branch taken when the mkflat result is rejected: cnpmodtool.py
\* removes the staging directory before returning False,
\* gravitool_main.py returns False from outside the try/finally.
MkflatFailed(st, p, rmOk) ==
    IF variant = "cnp"
    THEN CleanupAndReturn(st, p, "fail", rmOk)
    ELSE /\ staging' = st
         /\ pkg' = Return(p, "fail")

\* run_starter_command("mkflat", [output, flatlist]) and the check of
\* its result.  The archiver may write its output file whatever its
\* exit, when it was launched in the root that holds the staging; what
\* it prints does not matter to the packager.
PkgMkflat ==
    /\ pkg.pc = "mkflat"
    /\ \E outcome \in Outcomes, wrote \in BOOLEAN, rmOk \in RmOutcomes :
         LET out_rel == OsPathJoin(pkg.dir_rel, <<pkg.stem, ".flatdata">>)
             list_rel == OsPathJoin(pkg.dir_rel, <<pkg.stem, ".!flatlist">>)
             r == RunStarter(<<"mkflat">>, <<out_rel, list_rel>>, outcome,
                             <<"text">>, <<>>)
             st1 == IF wrote
                    THEN [staging EXCEPT ![pkg.dir].flatdata =
                            IF outcome = "exit0"
                            THEN ArchiveOf(staging[pkg.dir])
                            ELSE PartialFile]
                    ELSE staging
             exists == st1[pkg.dir].flatdata.tag # "absent"
             p1 == [pkg EXCEPT !.invoked = TRUE, !.mkOutcome = r.outcome,
                               !.mkWrote = wrote, !.mkExists = exists]
         IN /\ wrote => (r.launched /\ r.cwd = pkg.root)
            /\ rsc' = r
            /\ IF MkflatRejected(r.ok, exists)
               THEN MkflatFailed(st1, p1, rmOk)
               ELSE /\ staging' = st1
                    /\ pkg' = [p1 EXCEPT !.pc = "move"]
    /\ UNCHANGED <<variant, cfgVars, fsRootVars, clock, packedDir, packed,
                   rmFaults, extVars>>

\* How os.makedirs + shutil.move can end: "ok"; or raising with the
\* target directory not made, with the target file untouched, with the
\* target file half copied, or with the target copied and the source
\* not unlinked.
MoveOutcomes ==
    {"ok", "makedirs_error", "rename_error", "copy_error", "unlink_error"}

\* FinallyCleanup with the removal lost.
FinallyCleanup_none(st, d, rmOk) == st

\* The finally block: the staging directory is removed whatever the move
\* did; a failing removal is logged only.
FinallyCleanup(st, d, rmOk) == IF rmOk THEN RemoveTree(st, d) ELSE st

\* The try/except/finally at the end: the archive is moved into
\* CORE/shared/packed_data and True is returned, or the move raises and
\* False is returned.
PkgMove ==
    /\ pkg.pc = "move"
    /\ \E mv \in MoveOutcomes, rmOk \in RmOutcomes :
         LET c == staging[pkg.dir].flatdata
             st1 == IF mv = "ok"
                    THEN [staging EXCEPT ![pkg.dir].flatdata = NoFile]
                    ELSE staging
             p1 == [pkg EXCEPT !.mvOutcome = mv]
         IN /\ mv = "makedirs_error" => ~packedDir
            /\ packedDir' = IF mv = "makedirs_error" THEN packedDir
                            ELSE TRUE
            /\ packed' =
                 CASE mv \in {"ok", "unlink_error"} ->
                        [packed EXCEPT ![pkg.stem] = c]
                   [] mv = "copy_error" ->
                        [packed EXCEPT ![pkg.stem] = PartialFile]
                   [] OTHER -> packed
            /\ staging' = FinallyCleanup(st1, pkg.dir, rmOk)
            /\ pkg' = IF mv = "ok" THEN Return(p1, "ok")
                      ELSE Return(p1, "fail")
    /\ UNCHANGED <<variant, cfgVars, fsRootVars, rsc, clock,
                   rmFaults, extVars>>

\* Time passes (the clock is read at the entry of a call only); the
\* results of the finished call have been consumed by its caller.
TickSteps ==
    /\ Idle
    /\ pkg' = [NoPkg EXCEPT !.calls = pkg.calls,
                            !.lastCall = pkg.lastCall]
    /\ rsc' = NoCall
    /\ \/ /\ clock.usec < MaxUsec
          /\ clock' = [clock EXCEPT !.usec = @ + 1]
       \/ /\ clock.sec < MaxSec
          /\ \E u \in 0..MaxUsec :
               clock' = [sec |-> clock.sec + 1, usec |-> u]
    /\ UNCHANGED <<variant, cfgVars, fsRootVars, staging, packedDir,
                   packed, rmFaults>>

Tick == TickSteps /\ UNCHANGED extVars

\* ------------------------------------------------ the other operations
\* No entry name is being computed.
InitNoName == nameIn = <<>> /\ nameOut = None

\* No install path is being computed.
InitNoSlug == slugIn = <<>> /\ slugOut = None

\* The staging filenames the flatlist loop can be handed.
Filenames ==
    {<<b>> \o e : b \in {"a", "x"},
                  e \in UNION {[1..n -> ExtToks] : n \in 0..MaxExts}}

\* One pass of the loop body up to the flatlist line.
EntryNameStep ==
    /\ nameOut = None
    /\ nameOut' = FlatlistEntryName(variant, nameIn)
    /\ UNCHANGED <<variant, packVars, nameIn, slugVars, descVars, layoutVars, runVars>>

\* ------------------------------------------------- the install path
\* A Mod Name is a sequence of characters.
Letters == {"M", "y", "o", "d", "v", "a"}
Digits == {"2"}
Whitespace == {" ", "\t"}

\* \w of the re module.
IsWord(c) == c \in Letters \cup Digits \cup {"_"}

\* \s of the re module, and what str.strip() takes off.
IsSpace(c) == c \in Whitespace

\* SubInvalid dropping the characters instead of replacing them.
SubInvalid_drops(mod_name) ==
    SelectSeq(mod_name, LAMBDA c : IsWord(c) \/ IsSpace(c) \/ c \in {"_", "-"})

\* re.sub(r'[^\w\s_-]', '_', mod_name)
SubInvalid(mod_name) ==
    [k \in 1..Len(mod_name) |->
        IF IsWord(mod_name[k]) \/ IsSpace(mod_name[k])
           \/ mod_name[k] \in {"_", "-"}
        THEN mod_name[k] ELSE "_"]

\* str.strip()
Strip(str) ==
    LET keep == {k \in 1..Len(str) : ~IsSpace(str[k])}
    IN IF keep = {} THEN <<>>
       ELSE SubSeq(str, CHOOSE k \in keep : \A j \in keep : k <= j,
                        CHOOSE k \in keep : \A j \in keep : k >= j)

\* re.sub(r'\s+', '_', str): every maximal run of whitespace becomes
\* one underscore.
RECURSIVE CollapseSpace(_)
CollapseSpace(str) ==
    IF str = <<>> THEN <<>>
    ELSE IF ~IsSpace(Head(str)) THEN <<Head(str)>> \o CollapseSpace(Tail(str))
    ELSE IF Len(str) >= 2 /\ IsSpace(str[2]) THEN CollapseSpace(Tail(str))
    ELSE <<"_">> \o CollapseSpace(Tail(str))

MyMod == <<"M", "y", "M", "o", "d">>

\* OrDefault with the default lost.
OrDefault_kept(str) == str

\* if not sanitized_mod_name_for_path: ... = "MyMod"
OrDefault(str) == IF str = <<>> THEN MyMod ELSE str

\* sanitized_mod_name_for_path, as computed from the Mod Name.
SanitizedModName(mod_name) ==
    OrDefault(CollapseSpace(Strip(SubInvalid(mod_name))))

\* installer_mod_path = f"mods/{sanitized_mod_name_for_path}"
InstallerModPath(segment) == <<"m", "o", "d", "s", "/">> \o segment

SlugChars == {"a", "2", "_", "-", " ", "\t", "!", "/"}

ModNameExample == <<"M", "y", " ", "M", "o", "d", "!", " ", "v", "2">>

\* The Mod Names of the GUI field.
ModNames ==
    UNION {[1..n -> SlugChars] : n \in 0..MaxNameLen} \cup {ModNameExample}

\* The three statements that compute the path segment.
SlugStep ==
    /\ slugOut = None
    /\ slugOut' = SanitizedModName(slugIn)
    /\ UNCHANGED <<variant, packVars, nameVars, slugIn, descVars, layoutVars, runVars>>

\* ------------------------------------------ _generate_desc_addpack_file
\* encodings_to_try
Encodings == <<"utf-8-sig", "utf-8", "windows-1251", "latin-1">>

\* The bytes a template file can hold: ASCII only; UTF-8 with or
\* without a byte order mark; windows-1251; bytes that are neither
\* valid UTF-8 nor valid windows-1251.
TemplateBytes == {"ascii", "utf8bom", "utf8", "cp1251", "binary"}

\* open(path, "r", encoding=enc).read(): how the non-ASCII part of the
\* file comes out, or "fail" for UnicodeDecodeError.
Decode(enc, bytes) ==
    CASE bytes = "ascii" -> "plain"
      [] bytes = "utf8bom" ->
            (CASE enc = "utf-8-sig" -> "cyrillic"
               [] enc = "utf-8" -> "bom+cyrillic"
               [] enc = "windows-1251" -> "mojibake-1251"
               [] OTHER -> "mojibake-latin1")
      [] bytes = "utf8" ->
            (CASE enc \in {"utf-8-sig", "utf-8"} -> "cyrillic"
               [] enc = "windows-1251" -> "mojibake-1251"
               [] OTHER -> "mojibake-latin1")
      [] bytes = "cp1251" ->
            (CASE enc \in {"utf-8-sig", "utf-8"} -> "fail"
               [] enc = "windows-1251" -> "cyrillic"
               [] OTHER -> "mojibake-latin1")
      [] OTHER -> IF enc = "latin-1" THEN "mojibake-latin1" ELSE "fail"

\* StopsLoop with the break lost.
StopsLoop_never(ok) == FALSE

\* The break that follows a successful read.
StopsLoop(ok) == ok

\* The text of a template is a sequence of tokens; a type assignment is
\* "type[*]", blanks, "=", blanks, a word and ";".
TypeValues == {"ADDN", "CAMP", "RES", "MISC"}

Pad(n) == [k \in 1..n |-> " "]

TypeAssignment(pre, post, value) ==
    <<"type[*]">> \o Pad(pre) \o <<"=">> \o Pad(post) \o <<value, ";">>

TemplateHead ==
    <<"path=", "<my_updates>", ";", "name=", "<My Addon>", ";",
      "author=", "<Vasya Pupkin>", ";", "version[u] = 1", ";", "\n">>

TemplateTexts ==
    {TemplateHead} \cup
    {TemplateHead \o TypeAssignment(pre, post, value) :
        pre \in 0..MaxPad, post \in 0..MaxPad, value \in TypeValues}

\* needle in text
Contains(text, needle) ==
    \E k \in 0..(Len(text) - Len(needle)) :
        SubSeq(text, k + 1, k + Len(needle)) = needle

\* str.replace(old, new) for a one-token old.
RECURSIVE Replace(_, _, _)
Replace(text, old, new) ==
    IF text = <<>> THEN <<>>
    ELSE (IF Head(text) = old THEN new ELSE <<Head(text)>>)
         \o Replace(Tail(text), old, new)

\* \s* from position k on.
RECURSIVE BlankRun(_, _)
BlankRun(text, k) ==
    IF k <= Len(text) /\ text[k] \in {" ", "\n"}
    THEN 1 + BlankRun(text, k + 1) ELSE 0

\* The length of the match of type\[\*\]\s*=\s*\w+; at position k, 0
\* when there is none.
TypeMatchLen(text, k) ==
    IF text[k] # "type[*]" THEN 0
    ELSE LET e == k + 1 + BlankRun(text, k + 1)
         IN IF e > Len(text) \/ text[e] # "=" THEN 0
            ELSE LET w == e + 1 + BlankRun(text, e + 1)
                 IN IF /\ w + 1 <= Len(text)
                       /\ text[w] \in TypeValues
                       /\ text[w + 1] = ";"
                    THEN w + 2 - k ELSE 0

\* re.sub(r"type\[\*\]\s*=\s*\w+;", replacement, text) from position k on.
RECURSIVE SubType(_, _, _)
SubType(text, k, replacement) ==
    IF k > Len(text) THEN <<>>
    ELSE IF TypeMatchLen(text, k) > 0
    THEN replacement \o SubType(text, k + TypeMatchLen(text, k), replacement)
    ELSE <<text[k]>> \o SubType(text, k + 1, replacement)

\* The literal searched for to tell whether a type is set.
TypeNeedle(v) ==
    IF v = "gravi" THEN <<"type[*]", " ", "=">> ELSE <<"type[*]", "=">>

\* The literals searched for to tell that the type is to be kept.
KeepNeedles ==
    {<<"type[*]", " ", "=", " ", "ADDN">>,
     <<"type[*]", " ", "=", " ", "CAMP">>}

\* The assignment written by the tool.
ResAssignment(v) ==
    IF v = "gravi" THEN <<"type[*]", " ", "=", " ", "RES", ";">>
    ELSE <<"type[*]", "=", " ", "RES", ";">>

\* The if / elif / else on the addon type.
NormalizeType(v, text) ==
    IF ~Contains(text, TypeNeedle(v))
    THEN text \o <<"\n">> \o ResAssignment(v) \o <<"\n">>
    ELSE IF \E needle \in KeepNeedles : Contains(text, needle)
    THEN text
    ELSE SubType(text, 1, ResAssignment(v))

Author == <<"A">>

\* The four replacements made before the type is looked at.
FillPlaceholders(text, mod_name) ==
    Replace(Replace(Replace(Replace(text,
        "<my_updates>", InstallerModPath(SanitizedModName(mod_name))),
        "<My Addon>", mod_name),
        "<Vasya Pupkin>", Author),
        "version[u] = 1", <<"version[u] = 100">>)

\* The content of a descriptor file.
NoDesc == [tag |-> "absent", text |-> <<>>]
OldDesc == [tag |-> "old", text |-> <<>>]
PartialDesc == [tag |-> "partial", text |-> <<>>]
CompiledDesc(text) == [tag |-> "compiled", text |-> text]

\* desc_engcfg2_content = None
NoContent == [glyphs |-> "none", text |-> <<>>]

NoTemplate == [present |-> FALSE, bytes |-> "ascii", text |-> TemplateHead]

NoTmp == [engcfg2 |-> FALSE, addpack |-> NoDesc]

\* A compiled output that an earlier run left under users/modwork.
StaleDesc == [tag |-> "stale", text |-> <<>>]

\* The call record of _generate_desc_addpack_file: its position, its
\* locals and (desc0, reason) what the claims speak of.
NoGen ==
    [pc |-> "idle", result |-> "none", reason |-> "none", k |-> 0,
     tried |-> <<>>, content |-> NoContent, prepared |-> FALSE,
     desc0 |-> NoDesc, mv |-> "none"]

DescReturn(g, result, reason) ==
    [g EXCEPT !.pc = "idle", !.result = result, !.reason = reason]

\* _temp_desc_{suffix}.addpack[.engcfg2] under users/modwork;
\* cnpmodtool.py has no suffix in the name.
TempDescRel(v, ext) ==
    ModworkRel(IF v = "gravi"
               THEN <<"_temp_desc_">> \o get_unique_timestamp_suffix(clock)
                    \o ext
               ELSE <<"_temp_desc">> \o ext)

\* Entry and the test of the template path.
DescCall ==
    /\ gen = NoGen
    /\ coreDir' = IF variant = "gravi" THEN TRUE ELSE coreDir
    /\ gen' = IF ~tpl.present
              THEN DescReturn([NoGen EXCEPT !.desc0 = descFile],
                              "fail", "template missing")
              ELSE [NoGen EXCEPT !.desc0 = descFile, !.pc = "read",
                                 !.k = 1]
    /\ UNCHANGED <<variant, packVars, nameVars, slugVars, tpl, descFile,
                   tmpFiles, layoutVars, runVars>>

\* One pass of the loop over the encodings; the read can also fail for
\* a reason other than decoding.
DescRead ==
    /\ gen.pc = "read"
    /\ \E ioError \in BOOLEAN :
         LET enc == Encodings[gen.k]
             d == IF ioError THEN "fail" ELSE Decode(enc, tpl.bytes)
             ok == d # "fail"
             c == IF ok THEN [glyphs |-> d, text |-> tpl.text]
                  ELSE gen.content
             g == [gen EXCEPT !.tried = Append(@, [enc |-> enc, ok |-> ok]),
                              !.content = c]
         IN gen' = IF StopsLoop(ok) \/ gen.k = Len(Encodings)
                   THEN IF c = NoContent
                        THEN DescReturn(g, "fail", "template read")
                        ELSE [g EXCEPT !.pc = "write"]
                   ELSE [g EXCEPT !.k = @ + 1]
    /\ UNCHANGED <<variant, packVars, nameVars, slugVars, tpl, descFile,
                   coreDir, tmpFiles, layoutVars, runVars>>

\* The content is filled in and written to the temporary .engcfg2.
DescWrite ==
    /\ gen.pc = "write"
    /\ \E writeOk \in BOOLEAN, created \in BOOLEAN :
         LET text == NormalizeType(variant,
                                   FillPlaceholders(gen.content.text, slugIn))
             g == [gen EXCEPT !.content.text = text, !.prepared = TRUE]
         IN /\ writeOk => created
            /\ tmpFiles' = [tmpFiles EXCEPT !.engcfg2 = created]
            /\ gen' = IF writeOk THEN [g EXCEPT !.pc = "compile"]
                      ELSE DescReturn(g, "fail", "temp write")
    /\ UNCHANGED <<variant, packVars, nameVars, slugVars, tpl, descFile,
                   coreDir, layoutVars, runVars>>

\* DescRejected looking at the output file only.
DescRejected_exitIgnored(gen_success, exists) == ~exists

\* "if not gen_success or not os.path.exists(temp_desc_addpack_output_abs)"
DescRejected(gen_success, exists) == ~gen_success \/ ~exists

\* run_starter_command("pd2cfgp", [input, output]), the removal of the
\* temporary input and the check of the result.  The compiler may write
\* its output file whatever its exit.
DescCompile ==
    /\ gen.pc = "compile"
    /\ \E outcome \in Outcomes, wrote \in BOOLEAN :
         LET r == RunStarter(<<"pd2cfgp">>,
                             <<TempDescRel(variant, <<".addpack", ".engcfg2">>),
                               TempDescRel(variant, <<".addpack">>)>>,
                             outcome, <<"text">>, <<>>)
             out == IF ~wrote THEN tmpFiles.addpack
                    ELSE IF outcome = "exit0"
                    THEN CompiledDesc(gen.content.text)
                    ELSE PartialDesc
             exists == out.tag # "absent"
         IN /\ wrote => r.launched
            /\ rsc' = r
            /\ IF DescRejected(r.ok, exists)
               THEN /\ tmpFiles' = NoTmp
                    /\ gen' = DescReturn(gen, "fail",
                                         IF ~r.ok THEN "compile"
                                         ELSE "no output")
               ELSE /\ tmpFiles' = [engcfg2 |-> FALSE, addpack |-> out]
                    /\ gen' = [gen EXCEPT !.pc = "move"]
    /\ UNCHANGED <<variant, cfgVars, fsRootVars, clock, staging, packedDir,
                   packed, pkg, rmFaults, nameVars, slugVars, tpl,
                   descFile, coreDir, layoutVars, runVars>>

\* The move into CORE (MoveOutcomes); cnpmodtool.py does not make the
\* CORE directory first, so the move fails when it is not there.
DescMove ==
    /\ gen.pc = "move"
    /\ \E mv \in MoveOutcomes :
         /\ mv = "makedirs_error" <=> ~coreDir
         /\ descFile' =
              CASE mv \in {"ok", "unlink_error"} -> tmpFiles.addpack
                [] mv = "copy_error" -> PartialDesc
                [] OTHER -> descFile
         /\ tmpFiles' = NoTmp
         /\ gen' = DescReturn([gen EXCEPT !.mv = mv],
                              IF mv = "ok" THEN "ok" ELSE "fail",
                              IF mv = "ok" THEN "none" ELSE "move")
    /\ UNCHANGED <<variant, packVars, nameVars, slugVars, tpl, coreDir,
                   layoutVars, runVars>>

\* No descriptor is being generated.
InitNoDesc ==
    /\ tpl = NoTemplate
    /\ gen = NoGen
    /\ descFile = NoDesc
    /\ coreDir = FALSE
    /\ tmpFiles = NoTmp

\* ----------------------------------------------- initialize_mod_folders
\* The standard subfolders, in the order of the dictionary.
paths_to_create(v) ==
    IF v = "gravi"
    THEN <<<<"dds_work">>, <<"prepared_textures">>, <<"CORE">>,
           <<"CORE", "shared", "packed_data">>,
           <<"extracted_game_textures", "atf">>,
           <<"extracted_game_textures", "dds">>,
           <<"extracted_game_sounds">>,
           <<"wav_sfx_work">>, <<"wav_speech_work">>,
           <<"prepared_sounds", "sfx">>, <<"prepared_sounds", "speech">>>>
    ELSE <<<<"dds_work">>, <<"prepared_textures">>, <<"CORE">>,
           <<"CORE", "shared", "packed_data">>,
           <<"extracted_game_textures", "atf">>,
           <<"extracted_game_textures", "dds">>,
           <<"wav_sfx_work">>, <<"wav_speech_work">>, <<"wav_music_work">>,
           <<"prepared_sounds", "sfx">>, <<"prepared_sounds", "speech">>,
           <<"prepared_sounds", "music">>>>

\* os.makedirs(p, exist_ok=True): p and its missing parents.
MakeDirsP(dirs, p) == dirs \cup {SubSeq(p, 1, n) : n \in 1..Len(p)}

\* The loop over paths_to_create through its n-th entry: what is
\* missing is made.
RECURSIVE CreateFolders(_, _, _)
CreateFolders(dirs, paths, n) ==
    IF n = 0 THEN dirs
    ELSE LET d == CreateFolders(dirs, paths, n - 1)
         IN IF paths[n] \in d THEN d ELSE MakeDirsP(d, paths[n])

\* The mod project directory: whether it is there, its folders and its
\* readme.txt ("absent", "user" text, the "template", or a "partial"
\* write).
NoWs == [proj |-> FALSE, dirs |-> {}, readme |-> "absent"]

\* How writing the readme can end.
ReadmeOutcomes == {"written", "not created", "partial"}

\* ReadmeMissing with the test lost.
ReadmeMissing_always(readme) == TRUE

\* "if not os.path.exists(readme_path)"
ReadmeMissing(readme) == readme = "absent"

\* The call record: the number of calls, the value returned by the last
\* one and by the one before it, and the directory as the last call
\* found it.
NoImf == [calls |-> 0, result |-> "none", prevResult |-> "none",
          ws0 |-> NoWs]

\* initialize_mod_folders(silent): the directory, the folders, the
\* readme.  Making the project directory can fail (projOk), making the
\* failAt-th folder can fail, writing the readme can fail.
initialize_mod_folders ==
    /\ imf.calls < MaxInitCalls
    /\ GAME_ROOT_DIR' = game_root_var
    /\ \E projOk \in BOOLEAN, failAt \in 0..Len(paths_to_create(variant)),
          readmeOutcome \in ReadmeOutcomes :
         LET paths == paths_to_create(variant)
             rec == [calls |-> imf.calls + 1, result |-> "none",
                     prevResult |-> imf.result, ws0 |-> ws]
             w1 == [ws EXCEPT !.proj = TRUE]
             before == CreateFolders(w1.dirs, paths,
                                     IF failAt = 0 THEN 0 ELSE failAt - 1)
         IN IF mod_project_dir_var = <<>>
            THEN /\ ws' = ws
                 /\ imf' = [rec EXCEPT !.result = "fail"]
            ELSE IF ~ws.proj /\ ~projOk
            THEN /\ ws' = ws
                 /\ imf' = [rec EXCEPT !.result = "fail"]
            ELSE IF failAt > 0 /\ paths[failAt] \notin before
            THEN /\ ws' = [w1 EXCEPT !.dirs = before]
                 /\ imf' = [rec EXCEPT !.result = "fail"]
            ELSE /\ ws' = [w1 EXCEPT
                      !.dirs = CreateFolders(w1.dirs, paths, Len(paths)),
                      !.readme =
                         IF ~ReadmeMissing(w1.readme) THEN w1.readme
                         ELSE CASE readmeOutcome = "written" -> "template"
                                [] readmeOutcome = "partial" -> "partial"
                                [] OTHER -> "absent"]
                 /\ imf' = [rec EXCEPT !.result = "ok"]
    /\ UNCHANGED <<variant, STARTER_EXE_PATH, game_root_var, fsRootVars,
                   rsc, pkgVars, rmFaults, nameVars, slugVars, descVars,
                   mod_project_dir_var, runVars>>

\* Nothing has been initialized.
InitNoLayout ==
    /\ mod_project_dir_var = <<>>
    /\ ws = NoWs
    /\ imf = NoImf

\* --------------------------------------------------- GUI handlers
\* No handler is running.
NoOp == [name |-> "none", pc |-> "idle", root |-> <<>>]

\* _validate_paths: "if check_starter: update_starter_exe_path()", past
\* the test of the root directory.
StarterAfterValidate(check_starter) ==
    IF game_root_var # <<>> /\ IsDir(game_root_var) /\ check_starter
    THEN update_starter_exe_path(game_root_var)
    ELSE STARTER_EXE_PATH

\* A handler begins with "if not self._validate_paths(...): return".
\* The handlers that extract, convert and generate validate with
\* check_starter left at True; create_mod_archive passes
\* check_starter=False ("Starter not needed for zipping") and, in
\* GraviTool, then regenerates the descriptor, which launches pd2cfgp.
OpBegin(name, check_starter) ==
    /\ Idle
    /\ op = NoOp
    /\ LET exe == StarterAfterValidate(check_starter)
           ok == /\ game_root_var # <<>> /\ IsDir(game_root_var)
                 /\ check_starter => (exe # <<>> /\ PathExists(exe))
                 /\ mod_project_dir_var # <<>>
       IN /\ GAME_ROOT_DIR' = game_root_var
          /\ STARTER_EXE_PATH' = exe
          /\ op' = IF ok THEN [name |-> name, pc |-> "validated",
                               root |-> game_root_var]
                   ELSE NoOp
    /\ rsc' = NoCall
    /\ UNCHANGED <<variant, game_root_var, fsRootVars, pkgVars, rmFaults,
                   nameVars, slugVars, descVars, layoutVars, arc, ex>>

\* The handlers that launch the vendor executable: create_mod_archive
\* launches it in GraviTool only (CnP zips what generate_mod_files left).
Launches(name) == name = "create_archive" => variant = "gravi"

\* The handler returns to the event loop.
OpEnd ==
    /\ Idle
    /\ op.pc = "validated"
    /\ op' = NoOp
    /\ rsc' = NoCall
    /\ UNCHANGED <<variant, cfgVars, fsRootVars, pkgVars, rmFaults,
                   nameVars, slugVars, descVars, layoutVars, arc, ex>>

\* ------------------------------------------------- create_mod_archive
\* The paths the save dialog can return: the suggested name, one with
\* the extension typed in capitals, the "Zip files" type, no extension.
SaveExts == {".gt2extension", ".GT2EXTENSION", ".zip"}

SavePaths == {<<"D", "/", "Mod", e>> : e \in SaveExts}
                 \cup {<<"D", "/", "Mod">>}

\* ArchiveSavePath leaving the chosen path as it is.
ArchiveSavePath_kept(chosen) == chosen

\* "if not archive_save_path.lower().endswith(".gt2extension"):
\*      archive_save_path = os.path.splitext(archive_save_path)[0]
\*                          + ".gt2extension""
ArchiveSavePath(chosen) ==
    IF LowerTok(chosen[Len(chosen)]) = ".gt2extension" THEN chosen
    ELSE (IF chosen[Len(chosen)] \in SaveExts THEN DropLast(chosen, 1)
          ELSE chosen) \o <<".gt2extension">>

\* The steps of the try block, in the order the code takes them; a
\* fault is the step that raises.
ArchiveSteps == <<"makedirs", "copytree", "copy2", "make_archive",
                  "remove", "move">>

ArchiveFaults == {"none"} \cup {ArchiveSteps[i] : i \in DOMAIN ArchiveSteps}

StepIndex(step) == CHOOSE i \in DOMAIN ArchiveSteps : ArchiveSteps[i] = step

\* The step has been completed when the run stops at the fault.
Passed(step, fault) ==
    fault = "none" \/ StepIndex(step) < StepIndex(fault)

\* No archive has been created.  path is archive_save_path, saved the
\* file at it ("absent", "old": the file that was there before, "new":
\* the zip of this run), holds what the zip of this run holds,
\* staging_dir and zip whether the staging directory and the
\* intermediate .zip exist; old0, fault, readme0, rmFails record the
\* inputs of the run.
NoArc ==
    [pc |-> "idle", result |-> "none", path |-> <<>>, saved |-> "absent",
     holds |-> {}, staging_dir |-> FALSE, zip |-> FALSE,
     old0 |-> "absent", fault |-> "none", readme0 |-> FALSE,
     rmFails |-> FALSE]

\* create_mod_archive past its checks, from the save dialog on.  chosen
\* is the path the dialog returned (empty: cancelled), old whether a
\* file exists at the save path, readme whether readme.txt exists when
\* it is to be copied, fault the step that raises, partial whether
\* make_archive left a partial .zip when it raised, rmFails whether
\* removing (the staging directory, the intermediate zip) fails in the
\* finally block.
create_mod_archive(chosen, old, readme, fault, partial, rmFails) ==
    /\ Idle
    /\ arc.pc = "idle"
    /\ mod_project_dir_var # <<>>
    /\ fault = "copy2" => readme
    /\ fault = "remove" => old
    /\ partial => fault = "make_archive"
    /\ IF chosen = <<>>
       THEN arc' = [NoArc EXCEPT !.pc = "done", !.result = "cancelled"]
       ELSE LET staged == (IF Passed("copytree", fault) THEN {"CORE"}
                           ELSE {})
                            \cup (IF readme /\ Passed("copy2", fault)
                                  THEN {"readme.txt"} ELSE {})
                made == Passed("make_archive", fault)
                removed == old /\ Passed("remove", fault)
                moved == Passed("move", fault)
                \* finally: the staging directory, then the zip that
                \* make_archive returned and that was not moved.
                stagingLeft == Passed("makedirs", fault) /\ rmFails
                zipLeft == \/ partial
                           \/ made /\ ~moved /\ rmFails
            IN arc' = [pc |-> "done",
                       result |-> IF fault = "none" THEN "success"
                                  ELSE "error",
                       path |-> ArchiveSavePath(chosen),
                       saved |-> IF moved THEN "new"
                                 ELSE IF old /\ ~removed THEN "old"
                                 ELSE "absent",
                       holds |-> IF made THEN staged ELSE {},
                       staging_dir |-> stagingLeft,
                       zip |-> zipLeft,
                       old0 |-> IF old THEN "old" ELSE "absent",
                       fault |-> fault, readme0 |-> readme,
                       rmFails |-> rmFails]
    /\ rsc' = NoCall
    /\ UNCHANGED <<variant, cfgVars, fsRootVars, pkgVars, rmFaults,
                   nameVars, slugVars, descVars, layoutVars, op, ex>>

\* The handler has returned; the next click starts a new one.
ArchiveReturn ==
    /\ arc.pc = "done"
    /\ arc' = NoArc
    /\ rsc' = NoCall
    /\ UNCHANGED <<variant, cfgVars, fsRootVars, pkgVars, rmFaults,
                   nameVars, slugVars, descVars, layoutVars, op, ex>>

\* ------------------------------------ extract_and_convert_game_textures
\* The files unflat can leave in the temporary unpack directory, and
\* the listings os.listdir can give of them.
UnpackedItems == {<<"a", ".texture">>, <<"b", ".TEXTURE">>, <<"c", ".txt">>}

Listings ==
    {<<>>} \cup {<<i>> : i \in UnpackedItems}
           \cup {l \in {<<i, j>> : i, j \in UnpackedItems} : l[1] # l[2]}

\* "if item.lower().endswith(".texture")"
IsTextureItem(item) == LowerTok(item[Len(item)]) = ".texture"

\* "dds_filename = item.replace(".texture", ".dds")": str.replace
\* matches the case as written.
DdsFilename(item) ==
    [k \in DOMAIN item |-> IF item[k] = ".texture" THEN ".dds" ELSE item[k]]

\* The content of the file of that name in a directory ("none": no
\* such file).
ContentOf(files, name) ==
    IF \E f \in files : f.name = name
    THEN (CHOOSE f \in files : f.name = name).content
    ELSE "none"

PutFile(files, name, content) ==
    {f \in files : f.name # name} \cup {[name |-> name, content |-> content]}

\* "if conv_success and os.path.exists(temp_dds_output_in_game_temp_abs)"
ConvertedOk(conv_success, exists) == conv_success /\ exists

\* No extraction is running.  temp is the temporary unpack directory
\* under users/modwork (tempDir: it exists), atf and dds the folders of
\* the archive in the mod project, converted the list
\* successfully_converted_atf_paths_in_project; backed, unconverted and
\* deleted record which items were copied to atf, failed to be
\* converted or copied, and were deleted from atf.
NoEx ==
    [pc |-> "idle", result |-> "none", delete_atf |-> FALSE,
     todo |-> <<>>, tempDir |-> FALSE, temp |-> {}, atf |-> {},
     dds |-> {}, converted |-> <<>>, backed |-> {}, unconverted |-> {},
     deleted |-> {}]

\* The start of the loop body for one archive: unflat into a fresh
\* temporary directory, the folders of the archive in the project, the
\* listing.  made: unflat made the directory; rmOk: removing it
\* succeeds; dirsOk: os.makedirs of the project folders and os.listdir
\* succeed.
ExUnflat(delete, listing, outcome, made, rmOk, dirsOk) ==
    /\ Idle
    /\ ex.pc = "idle"
    /\ mod_project_dir_var # <<>>
    /\ LET rel == ModworkRel(<<"_temp_unflat_tex_">>
                             \o get_unique_timestamp_suffix(clock))
           r == RunStarter(<<"unflat">>, <<<<"tex", ".flatdata">>, rel>>,
                           outcome, <<>>, <<>>)
           e0 == [NoEx EXCEPT !.delete_atf = delete]
       IN /\ made => r.launched
          /\ outcome = "exit0" => made
          /\ rsc' = r
          /\ ex' =
               IF ~(r.ok /\ made)
               THEN \* "if os.path.exists(...): shutil.rmtree(...)"; continue
                    IF made /\ ~rmOk
                    THEN [e0 EXCEPT !.pc = "done", !.result = "raised",
                                    !.tempDir = TRUE]
                    ELSE [e0 EXCEPT !.pc = "done", !.result = "finished"]
               ELSE IF ~dirsOk
               THEN [e0 EXCEPT !.pc = "done", !.result = "raised",
                               !.tempDir = TRUE,
                               !.temp = {[name |-> listing[k],
                                          content |-> "texture"] :
                                            k \in DOMAIN listing}]
               ELSE [e0 EXCEPT !.pc = "items", !.todo = listing,
                               !.tempDir = TRUE,
                               !.temp = {[name |-> listing[k],
                                          content |-> "texture"] :
                                            k \in DOMAIN listing}]
    /\ UNCHANGED <<variant, cfgVars, fsRootVars, pkgVars, rmFaults,
                   nameVars, slugVars, descVars, layoutVars, op, arc>>

\* One pass of "for item in os.listdir(unflat_output_actual_abs)".
\* backupOk: the copy to the atf folder succeeds; wrote: atf2dds wrote
\* its output file; copyOk: the copy of the .dds to the dds folder
\* succeeds.
ExItem(backupOk, outcome, wrote, copyOk) ==
    /\ Idle
    /\ ex.pc = "items"
    /\ ex.todo # <<>>
    /\ LET item == Head(ex.todo)
           rest == [ex EXCEPT !.todo = Tail(@)]
           dds_filename == DdsFilename(item)
           r == RunStarter(<<"atf2dds">>, <<item, dds_filename>>, outcome,
                           <<>>, <<>>)
           temp1 == IF wrote THEN PutFile(ex.temp, dds_filename, "dds")
                    ELSE ex.temp
           exists == ContentOf(temp1, dds_filename) # "none"
           back == [rest EXCEPT !.atf = @ \cup {item},
                                !.backed = @ \cup {item},
                                !.temp = temp1]
       IN IF ~IsTextureItem(item)
          THEN /\ backupOk /\ outcome = "exit0" /\ ~wrote /\ copyOk
               /\ ex' = rest
               /\ rsc' = NoCall
          ELSE IF ~backupOk
          THEN /\ outcome = "exit0" /\ ~wrote /\ copyOk
               /\ ex' = rest
               /\ rsc' = NoCall
          ELSE /\ wrote => r.launched
               /\ rsc' = r
               /\ ex' =
                    IF ConvertedOk(r.ok, exists) /\ copyOk
                    THEN [back EXCEPT
                            !.dds = PutFile(@, dds_filename,
                                            ContentOf(temp1, dds_filename)),
                            !.converted = Append(@, item)]
                    ELSE [back EXCEPT !.unconverted = @ \cup {item}]
    /\ UNCHANGED <<variant, cfgVars, fsRootVars, pkgVars, rmFaults,
                   nameVars, slugVars, descVars, layoutVars, op, arc>>

\* After the loop: the optional deletion of the originals, then the
\* removal of the temporary unpack directory.  delOk: os.remove
\* succeeds; rmOk: shutil.rmtree succeeds.
ExCleanup(delOk, rmOk) ==
    /\ Idle
    /\ ex.pc = "items"
    /\ ex.todo = <<>>
    /\ LET names == {ex.converted[k] : k \in DOMAIN ex.converted}
           gone == IF ex.delete_atf /\ ex.converted # <<>> /\ delOk
                   THEN names \cap ex.atf ELSE {}
       IN ex' = [ex EXCEPT !.pc = "done", !.result = "finished",
                           !.atf = @ \ gone,
                           !.deleted = gone,
                           !.tempDir = ~rmOk,
                           !.temp = IF rmOk THEN {} ELSE @]
    /\ rsc' = NoCall
    /\ UNCHANGED <<variant, cfgVars, fsRootVars, pkgVars, rmFaults,
                   nameVars, slugVars, descVars, layoutVars, op, arc>>

\* No handler has been started.
InitNoRun == op = NoOp /\ arc = NoArc /\ ex = NoEx

\* None of the other operations has been started.
InitExtIdle ==
    InitNoName /\ InitNoSlug /\ InitNoDesc /\ InitNoLayout /\ InitNoRun

\* ------------------------------------------------------ specifications
PackedInits ==
    {[s \in Stems |-> NoFile], [s \in Stems |-> OldArchive]}

\* After construction (load_config and __init__): the globals agree with
\* the configured root; no call has been made.
InitCommon ==
    /\ variant \in {"gravi", "cnp"}
    /\ rsc = NoCall
    /\ clock = [sec |-> 0, usec |-> 0]
    /\ staging = <<>>
    /\ packed \in PackedInits
    /\ packedDir \in BOOLEAN
    /\ (\E s \in Stems : packed[s] # NoFile) => packedDir
    /\ pkg = NoPkg
    /\ InitExtIdle

\* The invoker on its own: any configuration and file system.
InitInvoke ==
    /\ InitCommon
    /\ rmFaults = FALSE
    /\ packedDir = FALSE
    /\ \E g \in RootStrings :
         /\ GAME_ROOT_DIR = g
         /\ game_root_var = g
         /\ STARTER_EXE_PATH = update_starter_exe_path(g)
    /\ dirRoots \in SUBSET Roots
    /\ exeRoots \in SUBSET dirRoots

NextInvoke ==
    \/ \E v \in RootStrings : EditGameRootField(v)
    \/ \E d \in RootStrings : set_game_root(d)
    \/ \E cs \in BOOLEAN : validate_paths(cs)
    \/ \E r \in Roots : EnvRootDirChange(r)
    \/ \E r \in Roots : EnvStarterExeChange(r)
    \/ \E c \in Commands, ps \in ParamLists, o \in Outcomes,
          out \in Outputs, err \in Outputs :
         run_starter_command(c, ps, o, out, err)

SpecInvoke == InitInvoke /\ [][NextInvoke]_vars

\* The packager as generate_mod_files reaches it: _validate_paths has
\* passed for the root in the Game Root field.
InitConfigured ==
    /\ GAME_ROOT_DIR = <<"R1">>
    /\ game_root_var = <<"R1">>
    /\ STARTER_EXE_PATH = update_starter_exe_path(<<"R1">>)
    /\ dirRoots = {"R1"}
    /\ exeRoots = {"R1"}

Init ==
    /\ InitCommon
    /\ InitConfigured
    /\ rmFaults = FALSE

Next ==
    \/ \E s \in Stems : \E job \in JobsOf(s) : PackageCall(s, job)
    \/ PkgCopy
    \/ PkgFlatlist
    \/ PkgMkflat
    \/ PkgMove
    \/ pkg.pc = "mkflat" /\ EnvStarterExeChange("R1")
    \/ Tick

Spec == Init /\ [][Next]_vars

\* The same program over a run with one more invocation of the packager.
NextRepeat ==
    \/ \E s \in Stems : \E job \in JobsOf(s) :
          PackageCallWithin(MaxCalls + 1, s, job)
    \/ PkgCopy
    \/ PkgFlatlist
    \/ PkgMkflat
    \/ PkgMove
    \/ pkg.pc = "mkflat" /\ EnvStarterExeChange("R1")
    \/ Tick

SpecRepeat == Init /\ [][NextRepeat]_vars

\* The invoker and the packager at rest, for the operations that do not
\* go through them.
InitPackIdle ==
    /\ variant \in {"gravi", "cnp"}
    /\ InitConfigured
    /\ rsc = NoCall
    /\ clock = [sec |-> 0, usec |-> 0]
    /\ staging = <<>>
    /\ packed = [s \in Stems |-> NoFile]
    /\ packedDir = FALSE
    /\ pkg = NoPkg
    /\ rmFaults = FALSE

\* The flatlist entry name, for every staging filename.
InitEntryName ==
    /\ InitPackIdle
    /\ InitNoSlug /\ InitNoDesc /\ InitNoLayout /\ InitNoRun
    /\ nameIn \in Filenames
    /\ nameOut = None

SpecEntryName == InitEntryName /\ [][EntryNameStep]_vars

\* The install path segment, for every Mod Name.
InitSlug ==
    /\ InitPackIdle
    /\ InitNoName /\ InitNoDesc /\ InitNoLayout /\ InitNoRun
    /\ slugIn \in ModNames
    /\ slugOut = None

SpecSlug == InitSlug /\ [][SlugStep]_vars

\* The descriptor generation, for every template file and CORE folder.
InitDesc ==
    /\ InitPackIdle
    /\ InitNoName /\ InitNoLayout /\ InitNoRun
    /\ slugIn = ModNameExample /\ slugOut = None
    /\ tpl \in {NoTemplate} \cup
                [present : {TRUE}, bytes : TemplateBytes,
                 text : TemplateTexts]
    /\ gen = NoGen
    /\ descFile \in {NoDesc, OldDesc}
    /\ coreDir \in BOOLEAN
    /\ descFile # NoDesc => coreDir
    /\ tmpFiles = NoTmp

NextDesc ==
    \/ DescCall
    \/ DescRead
    \/ DescWrite
    \/ DescCompile
    \/ DescMove

SpecDesc == InitDesc /\ [][NextDesc]_vars

\* The descriptor generation when an earlier run may have left its
\* compiled output behind.  cnpmodtool.py names the temporary files
\* "_temp_desc.addpack[.engcfg2]" in every run; gravitool_main.py puts
\* a fresh timestamp into the names, so a run never meets an old file.
InitDescStale ==
    /\ InitPackIdle
    /\ InitNoName /\ InitNoLayout /\ InitNoRun
    /\ slugIn = ModNameExample /\ slugOut = None
    /\ tpl \in {NoTemplate} \cup
                [present : {TRUE}, bytes : TemplateBytes,
                 text : TemplateTexts]
    /\ gen = NoGen
    /\ descFile \in {NoDesc, OldDesc}
    /\ coreDir \in BOOLEAN
    /\ descFile # NoDesc => coreDir
    /\ tmpFiles \in {NoTmp} \cup
                    (IF variant = "cnp"
                     THEN {[engcfg2 |-> FALSE, addpack |-> StaleDesc]}
                     ELSE {})

SpecDescStale == InitDescStale /\ [][NextDesc]_vars

\* The folder initialization, for a mod project directory in any state
\* an earlier run can have left it in.
InitLayout ==
    /\ InitPackIdle
    /\ InitNoName /\ InitNoSlug /\ InitNoDesc /\ InitNoRun
    /\ mod_project_dir_var \in {<<>>, <<"P">>}
    /\ ws \in {NoWs} \cup
              {[proj |-> TRUE,
                dirs |-> CreateFolders({}, paths_to_create(variant), n),
                readme |-> r] :
                  n \in 0..Len(paths_to_create(variant)),
                  r \in {"absent", "user"}}
    /\ imf = NoImf

SpecLayout == InitLayout /\ [][initialize_mod_folders]_vars

\* The GUI as the user drives it: the handlers run one at a time, the
\* file system changes at any time, and the vendor executable is
\* launched from inside a handler only.
InitHandlers ==
    /\ InitPackIdle
    /\ InitNoName /\ InitNoSlug /\ InitNoDesc /\ InitNoRun
    /\ mod_project_dir_var \in {<<>>, <<"P">>}
    /\ ws = NoWs /\ imf = NoImf

NextHandlers ==
    \/ op = NoOp /\ \E v \in RootStrings : EditGameRootField(v)
    \/ op = NoOp /\ \E d \in RootStrings : set_game_root(d)
    \/ op = NoOp /\ validate_paths(FALSE)
    \/ \E name \in {"extract", "convert", "generate"} : OpBegin(name, TRUE)
    \/ OpBegin("create_archive", FALSE)
    \/ op.name = "generate" /\ validate_paths(FALSE)
    \/ \E r \in Roots : EnvRootDirChange(r)
    \/ \E r \in Roots : EnvStarterExeChange(r)
    \/ /\ op.pc = "validated"
       /\ Launches(op.name)
       /\ \E c \in Commands, ps \in ParamLists, o \in Outcomes :
            run_starter_command(c, ps, o, <<>>, <<>>)
    \/ OpEnd

SpecHandlers == InitHandlers /\ [][NextHandlers]_vars

\* ------------------------------------------------- generate_mod_files
\* The listbox of packageable assets, in its order, and the selections
\* the user makes in it.
AssetOrder ==
    <<[folder |-> "prepared_textures", name |-> <<"a", ".texture">>],
      [folder |-> "prepared_sounds/sfx",
       name |-> <<"x", ".loc_def", ".sound">>]>>

Selections == SUBSET {AssetOrder[k] : k \in DOMAIN AssetOrder}

\* flatdata_definitions.items(): the categories in their order.
StemOrder == <<"textures", "sounds">>

RECURSIVE SelectedOf(_, _, _)
\* The selected entries of a category that are not in "missing", in
\* listbox order, from the k-th entry on.
SelectedOf(stem, keep, k) ==
    IF k > Len(AssetOrder) THEN <<>>
    ELSE (IF AssetOrder[k] \in keep /\ AssetOrder[k] \in AssetsOf(stem)
          THEN <<AssetOrder[k]>> ELSE <<>>)
         \o SelectedOf(stem, keep, k + 1)

\* The gathering loop tests os.path.exists in gravitool_main.py only.
GatherChecksSource(v) == v = "gravi"

\* DescFailed taking every result for a success.
DescFailed_ignored(result) == FALSE

\* "if not self._generate_desc_addpack_file(...): ...; return"
DescFailed(result) == result # "ok"

\* The message box that ends the run, from archives_packaged_count,
\* all_archives_successful and any(selected).
FinalReport(v, count, all_ok, any_selected) ==
    IF count = 0 /\ any_selected THEN "warning: no archives"
    ELSE IF all_ok /\ count > 0 THEN "success"
    ELSE IF count > 0 THEN "warning: partial success"
    ELSE IF v = "cnp" /\ ~any_selected THEN "info: descriptor only"
    ELSE IF v = "cnp" THEN "error"
    ELSE IF ~all_ok /\ any_selected THEN "error"
    ELSE "none"

\* The handler past _validate_paths and initialize_mod_folders: the
\* confirmation dialog (gravitool_main.py), the selection, and in
\* gravitool_main.py the update of the readme.  log lists the calls the
\* handler has made so far, missing the selected assets it or a
\* packager found missing, failed the categories whose packager did
\* not return True, desc1 the descriptor as the descriptor step left it.
GenAfterLayout(sel, confirmed, readmeOk) ==
    /\ Idle
    /\ op.name = "generate" /\ op.pc = "validated"
    /\ imf.calls = 1
    /\ variant = "cnp" => (confirmed /\ readmeOk)
    /\ LET run == [name |-> "generate", pc |-> "desc", root |-> op.root,
                   sel |-> sel, cat |-> 1, all_ok |-> TRUE, count |-> 0,
                   report |-> "none", log |-> <<"layout">>,
                   missing |-> {}, failed |-> {}, desc1 |-> NoDesc]
           end(report) == [run EXCEPT !.pc = "done", !.report = report]
       IN /\ op' = IF imf.result # "ok" THEN end("none")
                   ELSE IF ~confirmed THEN end("cancelled")
                   ELSE IF variant = "cnp" /\ sel = {}
                   THEN end("error: no selection")
                   ELSE run
          /\ ws' = IF imf.result = "ok" /\ confirmed /\ variant = "gravi"
                      /\ readmeOk
                   THEN [ws EXCEPT !.readme = "user"]
                   ELSE ws
          \* the CORE folder that initialize_mod_folders has made
          /\ coreDir' = (coreDir \/ <<"CORE">> \in ws.dirs)
    /\ rsc' = NoCall
    /\ UNCHANGED <<variant, cfgVars, fsRootVars, pkgVars, rmFaults,
                   nameVars, slugVars, tpl, gen, descFile, tmpFiles,
                   mod_project_dir_var, imf, arc, ex>>

\* _generate_desc_addpack_file has returned.
GenAfterDesc ==
    /\ Idle
    /\ op.name = "generate" /\ op.pc = "desc"
    /\ gen.pc = "idle" /\ gen.result # "none"
    /\ LET run == [op EXCEPT !.log = Append(@, "desc"), !.desc1 = descFile]
       IN op' = IF DescFailed(gen.result)
                THEN [run EXCEPT !.pc = "done", !.report = "error: desc"]
                ELSE IF op.sel = {}
                THEN [run EXCEPT !.pc = "done",
                                 !.report = "info: descriptor only"]
                ELSE [run EXCEPT !.pc = "gather"]
    /\ UNCHANGED <<variant, packVars, nameVars, slugVars, descVars,
                   layoutVars, arc, ex>>

\* One pass of the loop over the categories: the selected files of the
\* category are gathered (gravitool_main.py drops those it does not
\* find, "missing") and, if any are left, handed to the packager.
GenGather(missing) ==
    /\ Idle
    /\ op.name = "generate" /\ op.pc = "gather"
    /\ op.cat <= Len(StemOrder)
    /\ LET stem == StemOrder[op.cat]
           cands == op.sel \cap AssetsOf(stem)
           files == SelectedOf(stem, op.sel \ missing, 1)
           run == [op EXCEPT !.missing = @ \cup missing,
                             !.all_ok = @ /\ missing = {}]
       IN /\ missing \subseteq cands
          /\ ~GatherChecksSource(variant) => missing = {}
          /\ IF files # <<>>
             THEN /\ PackageCallSteps(Len(StemOrder), stem, files)
                  /\ op' = [run EXCEPT !.pc = "package",
                                       !.log = Append(@, stem)]
             ELSE /\ op' = [run EXCEPT !.cat = @ + 1]
                  /\ rsc' = NoCall
                  /\ UNCHANGED <<variant, cfgVars, fsRootVars, pkgVars,
                                 rmFaults>>
    /\ UNCHANGED <<nameVars, slugVars, descVars, layoutVars, arc, ex>>

\* _package_asset_archive has returned, or has raised: an exception
\* leaves the handler.
GenAfterPackage ==
    /\ Idle
    /\ op.name = "generate" /\ op.pc = "package"
    /\ pkg.result # "none"
    /\ LET stem == StemOrder[op.cat]
           seen == [op EXCEPT !.missing =
                      IF pkg.nMissing > 0
                      THEN @ \cup (op.sel \cap AssetsOf(stem)) ELSE @]
       IN op' =
            CASE pkg.result = "ok" ->
                   [seen EXCEPT !.count = @ + 1, !.cat = @ + 1,
                                !.pc = "gather"]
              [] pkg.result = "fail" ->
                   [seen EXCEPT !.all_ok = FALSE, !.cat = @ + 1,
                                !.failed = @ \cup {stem}, !.pc = "gather"]
              [] OTHER ->
                   [seen EXCEPT !.failed = @ \cup {stem}, !.pc = "done",
                                !.report = "none"]
    /\ UNCHANGED <<variant, packVars, nameVars, slugVars, descVars,
                   layoutVars, arc, ex>>

\* After the loop: the message box.
GenReport ==
    /\ Idle
    /\ op.name = "generate" /\ op.pc = "gather"
    /\ op.cat > Len(StemOrder)
    /\ op' = [op EXCEPT !.pc = "done",
                        !.report = FinalReport(variant, op.count, op.all_ok,
                                               op.sel # {})]
    /\ UNCHANGED <<variant, packVars, nameVars, slugVars, descVars,
                   layoutVars, arc, ex>>

\* generate_mod_files from the click to the message box, with the
\* operations it calls.
InitGenerate ==
    /\ variant \in {"gravi", "cnp"}
    /\ InitConfigured
    /\ rsc = NoCall
    /\ clock = [sec |-> 0, usec |-> 0]
    /\ staging = <<>>
    /\ packed = [s \in Stems |-> NoFile]
    /\ packedDir = FALSE
    /\ pkg = NoPkg
    /\ rmFaults \in BOOLEAN
    /\ InitNoName /\ InitNoRun
    /\ slugIn = ModNameExample /\ slugOut = None
    /\ tpl \in {NoTemplate,
               [present |-> TRUE, bytes |-> "ascii", text |-> TemplateHead]}
    /\ gen = NoGen
    /\ descFile = NoDesc
    /\ coreDir = FALSE
    /\ tmpFiles = NoTmp
    /\ mod_project_dir_var = <<"P">>
    /\ ws = NoWs
    /\ imf = NoImf

NextGenerate ==
    \/ OpBegin("generate", TRUE)
    \/ /\ op.name = "generate" /\ op.pc = "validated" /\ imf.calls = 0
       /\ initialize_mod_folders
    \/ \E sel \in Selections, confirmed \in BOOLEAN, readmeOk \in BOOLEAN :
         GenAfterLayout(sel, confirmed, readmeOk)
    \/ /\ op.name = "generate" /\ op.pc = "desc"
       /\ \/ DescCall
          \/ DescRead
          \/ DescWrite
          \/ DescCompile
          \/ DescMove
    \/ GenAfterDesc
    \/ \E missing \in Selections : GenGather(missing)
    \/ /\ op.name = "generate" /\ op.pc = "package"
       /\ \/ PkgCopy
          \/ PkgFlatlist
          \/ PkgMkflat
          \/ PkgMove
    \/ GenAfterPackage
    \/ op.name = "generate" /\ op.pc = "gather" /\ pkg.result # "none" /\ Tick
    \/ GenReport

SpecGenerate == InitGenerate /\ [][NextGenerate]_vars

\* create_mod_archive, for every save path, state of the file system
\* and failing step.
InitArchive ==
    /\ InitPackIdle
    /\ InitNoName /\ InitNoSlug /\ InitNoDesc /\ InitNoRun
    /\ mod_project_dir_var = <<"P">>
    /\ ws = NoWs /\ imf = NoImf

NextArchive ==
    \/ \E chosen \in SavePaths \cup {<<>>}, old \in BOOLEAN,
          readme \in BOOLEAN, fault \in ArchiveFaults,
          partial \in BOOLEAN, rmFails \in BOOLEAN :
         create_mod_archive(chosen, old, readme, fault, partial, rmFails)
    \/ ArchiveReturn

SpecArchive == InitArchive /\ [][NextArchive]_vars

\* extract_and_convert_game_textures for one selected archive, for
\* every listing of the unpacked files and every failure of a step.
InitExtract ==
    /\ InitPackIdle
    /\ InitNoName /\ InitNoSlug /\ InitNoDesc /\ InitNoRun
    /\ mod_project_dir_var = <<"P">>
    /\ ws = NoWs /\ imf = NoImf

NextExtract ==
    \/ \E delete \in BOOLEAN, listing \in Listings, o \in Outcomes,
          made \in BOOLEAN, rmOk \in BOOLEAN, dirsOk \in BOOLEAN :
         ExUnflat(delete, listing, o, made, rmOk, dirsOk)
    \/ \E backupOk \in BOOLEAN, o \in Outcomes, wrote \in BOOLEAN,
          copyOk \in BOOLEAN :
         ExItem(backupOk, o, wrote, copyOk)
    \/ \E delOk \in BOOLEAN, rmOk \in BOOLEAN : ExCleanup(delOk, rmOk)

SpecExtract == InitExtract /\ [][NextExtract]_vars

\* The same program when removing a directory can fail.
InitRmFaults ==
    /\ InitCommon
    /\ InitConfigured
    /\ rmFaults = TRUE

SpecRmFaults == InitRmFaults /\ [][Next]_vars

\* A packaging job that is run again after it failed: the caller hands
\* the same list to the packager once more.  op keeps what the caller
\* knows of the invocation that failed; there are two invocations, the
\* one that fails and the retry.
RetryJob(stem) ==
    IF stem = "textures"
    THEN <<[folder |-> "prepared_textures", name |-> <<"a", ".texture">>],
           [folder |-> "prepared_textures", name |-> <<"b", ".texture">>]>>
    ELSE <<[folder |-> "prepared_sounds/sfx",
            name |-> <<"x", ".loc_def", ".sound">>]>>

RetryCall(stem) ==
    /\ pkg.calls >= 1 =>
          /\ op.name = "retry"
          /\ op.stem = stem
    /\ PackageCallSteps(2, stem, RetryJob(stem))
    /\ UNCHANGED extVars

RetryTick ==
    /\ TickSteps
    /\ op' = IF pkg.result \in {"fail", "raised"}
             THEN [name |-> "retry", pc |-> "failed", root |-> pkg.root,
                   stem |-> pkg.stem, result |-> pkg.result]
             ELSE op
    /\ UNCHANGED <<nameVars, slugVars, descVars, layoutVars, arc, ex>>

NextRetry ==
    \/ \E s \in Stems : RetryCall(s)
    \/ PkgCopy
    \/ PkgFlatlist
    \/ PkgMkflat
    \/ PkgMove
    \/ pkg.pc = "mkflat" /\ EnvStarterExeChange("R1")
    \/ RetryTick

SpecRetry == InitRmFaults /\ [][NextRetry]_vars

\* ------------------------------------------------------------ properties
\* _package_asset_archive has returned a value to its caller.
Returned == pkg.pc = "idle" /\ pkg.result # "none"

\* The output tree is as it was when the call was made.
OutputUnchanged == packed = pkg.packed0 /\ packedDir = pkg.packedDir0

\* C1: for every non-empty job, once the packager has returned, the
\* staging directory it created no longer exists, whichever exit path
\* was taken (directory removal itself never failing).
C1_StagingGoneAfterReturn ==
    (Returned /\ pkg.nEntries > 0) => pkg.dir \notin DOMAIN staging

C3_ArchiverSuccessMeansArchive ==
    (/\ Returned
     /\ pkg.nEntries > 0
     /\ pkg.nMissing = 0
     /\ pkg.mkOutcome = "exit0"
     /\ pkg.mkWrote) =>
        /\ pkg.result = "ok"
        /\ packed[pkg.stem].tag # "absent"
        /\ pkg.dir \notin DOMAIN staging

\* C3 as amended: the same, when in addition the move of the archive
\* into the output tree does not fail; the archive at the fixed path is
\* then the one the archiver made from this job's flatlist and files.
\* When the move fails the packager returns failure, and the staging
\* directory is gone all the same.
C3_ArchiverAndMoveSuccess ==
    (/\ Returned
     /\ pkg.nEntries > 0
     /\ pkg.nMissing = 0
     /\ pkg.mkOutcome = "exit0"
     /\ pkg.mkWrote) =>
        /\ pkg.mvOutcome # "none"
        /\ pkg.dir \notin DOMAIN staging
        /\ pkg.mvOutcome = "ok" =>
              /\ pkg.result = "ok"
              /\ packedDir
              /\ packed[pkg.stem].tag = "archive"
              /\ Len(packed[pkg.stem].lines) = pkg.nEntries + 2
              /\ packed[pkg.stem].files # {}
        /\ pkg.mvOutcome # "ok" => pkg.result = "fail"

C3_Witness_ArchiveReplaced ==
    /\ Returned
    /\ pkg.nEntries > 1
    /\ pkg.nMissing = 0
    /\ pkg.mkOutcome = "exit0"
    /\ pkg.mkWrote
    /\ pkg.mvOutcome = "ok"
    /\ pkg.packed0[pkg.stem].tag = "old"
    /\ packed[pkg.stem].tag = "archive"

\* C4: for an empty job the packager returns success at once and changes
\* nothing: no staging directory is created, no flatlist is written, the
\* archiver is not invoked and the output tree is unchanged.
C4_EmptyJobChangesNothing ==
    (pkg.calls > 0 /\ pkg.nEntries = 0) =>
        /\ pkg.pc = "idle"
        /\ pkg.result # "none" =>
              /\ pkg.result = "ok"
              /\ ~pkg.invoked
              /\ rsc = NoCall
              /\ staging = pkg.staging0
              /\ pkg.dir = <<>>
              /\ OutputUnchanged

C4_Witness_EmptyJobReturned ==
    /\ Returned
    /\ pkg.calls > 0
    /\ pkg.nEntries = 0
    /\ pkg.result = "ok"
    /\ packed[pkg.stem].tag = "old"

\* C5 as stated: whenever the packager returns failure, the output tree
\* is exactly as it was before the call.
C5_FailureLeavesOutputUntouched ==
    (Returned /\ pkg.result = "fail") => OutputUnchanged

\* The packager stopped before the move for one of: a copy error, a
\* flatlist write error, the archiver not run or exiting non-zero or
\* timing out, or no output file being there after the archiver ran.
FailedBeforeMove ==
    \/ pkg.copyError
    \/ pkg.writeError
    \/ pkg.invoked /\ (pkg.mkOutcome # "exit0" \/ ~pkg.mkExists)

\* C5 as amended: when the packager fails for one of the reasons named
\* (copy error, flatlist write error, archiver exiting non-zero or
\* timing out, no output file there afterwards) it returns failure and the output
\* tree is exactly as it was before the call; more generally the output
\* tree is untouched until the move is attempted.  A failing move also
\* returns failure, but may leave packed_data created or the target
\* file partly or wholly written.
C5_FailureBeforeMoveLeavesOutputUntouched ==
    /\ (Returned /\ FailedBeforeMove) =>
          /\ pkg.result = "fail"
          /\ pkg.mvOutcome = "none"
          /\ OutputUnchanged
    /\ (pkg.calls > 0 /\ pkg.mvOutcome = "none" /\ pkg.stem # "") =>
          OutputUnchanged
    /\ (Returned /\ pkg.mvOutcome \notin {"none", "ok"}) =>
          pkg.result = "fail"

C5_Witness_ArchiverFailedOldArchiveKept ==
    /\ Returned
    /\ pkg.result = "fail"
    /\ pkg.mkOutcome = "exit1"
    /\ pkg.mkExists
    /\ packed[pkg.stem].tag = "old"

\* A call of run_starter_command has returned and its result is held.
Called == rsc.cmd # <<>>

\* C6: no subprocess is launched and (failure, no output path) is
\* returned whenever the root directory is unset or not an existing
\* directory, or the executable path is unset or does not exist.
C6_BadConfigNoLaunch ==
    (/\ Called
     /\ \/ GAME_ROOT_DIR = <<>>
        \/ ~IsDir(GAME_ROOT_DIR)
        \/ STARTER_EXE_PATH = <<>>
        \/ ~PathExists(STARTER_EXE_PATH)) =>
        /\ ~rsc.launched
        /\ rsc.proc = "none"
        /\ rsc.argv = <<>>
        /\ ~rsc.ok
        /\ rsc.path = None

C6_Witness_StaleExePathRootUnset ==
    /\ Called
    /\ GAME_ROOT_DIR = <<>>
    /\ STARTER_EXE_PATH # <<>>
    /\ PathExists(STARTER_EXE_PATH)
    /\ ~rsc.ok

\* C7: past the configuration check, success is reported exactly when
\* the subprocess exited in time with code zero, and a run that differs
\* only in the captured stdout/stderr returns the same result, for
\* every command name and parameter list.
C7_SuccessIffExitZero ==
    (Called /\ rsc.config) =>
        /\ rsc.ok <=> rsc.outcome = "exit0"
        /\ \A out \in Outputs, err \in Outputs :
             LET other == RunStarter(rsc.cmd, rsc.params, rsc.outcome,
                                     out, err)
             IN other.ok = rsc.ok /\ other.path = rsc.path

C7_Witness_SuccessWithStderrText ==
    /\ Called
    /\ rsc.config
    /\ rsc.ok
    /\ rsc.stderr # <<>>
    /\ rsc.stdout = <<>>

\* C8: when the subprocess has not exited at the timeout it is killed
\* and (failure, no output path) is returned; success is never returned
\* after a timeout and the process is never left running.
C8_TimeoutKillsAndFails ==
    /\ rsc.proc # "running"
    /\ (Called /\ rsc.outcome = "timeout") =>
          /\ rsc.launched
          /\ rsc.proc = "killed"
          /\ ~rsc.ok
          /\ rsc.path = None

C8_Witness_UnflatTimedOut ==
    /\ Called
    /\ rsc.outcome = "timeout"
    /\ rsc.cmd = <<"unflat">>
    /\ Len(rsc.params) >= 2
    /\ rsc.params[2] = <<"p">>

\* C9: the output path is non-null only when the command is "unflat",
\* the second parameter is there and non-empty and the process
\* succeeded, and it is then the root directory joined (os.path.join)
\* with that parameter; in every other case it is null.
C9_OutputPathOnlyForUnflat ==
    Called =>
        IF /\ rsc.cmd = <<"unflat">>
           /\ Len(rsc.params) >= 2
           /\ rsc.params[2] \notin {None, <<>>}
           /\ rsc.ok
        THEN /\ rsc.path # None
             /\ rsc.path = OsPathJoin(GAME_ROOT_DIR, rsc.params[2])
             /\ Head(rsc.params[2]) # "/" =>
                   rsc.path = GAME_ROOT_DIR \o <<"/">> \o rsc.params[2]
        ELSE rsc.path = None

C9_Witness_UnflatReturnsPath ==
    /\ Called
    /\ rsc.cmd = <<"unflat">>
    /\ rsc.ok
    /\ Len(rsc.params) >= 2
    /\ rsc.params[2] = <<"p">>
    /\ rsc.path = <<"R1", "/", "p">>

RECURSIVE CommaPrefixed(_)
\* Every parameter in order, each preceded by a comma, a null one
\* contributing nothing but its comma.
CommaPrefixed(params) ==
    IF params = <<>> THEN <<>>
    ELSE <<",">> \o (IF Head(params) = None THEN <<>> ELSE Head(params))
         \o CommaPrefixed(Tail(params))

\* C10: the subprocess is launched with exactly two arguments, the
\* executable path and one composite string (the command name, then for
\* a non-empty list a comma and the comma-joined parameters in order,
\* null ones as empty strings), in the root directory.
C10_TwoArgumentsCompositeString ==
    (Called /\ rsc.config) =>
        /\ Len(rsc.argv) = 2
        /\ rsc.argv[1] = STARTER_EXE_PATH
        /\ rsc.argv[2] = rsc.cmd \o CommaPrefixed(rsc.params)
        /\ rsc.cwd = GAME_ROOT_DIR
        /\ rsc.params = <<>> => rsc.argv[2] = rsc.cmd

C10_Witness_NullMiddleParameter ==
    /\ Called
    /\ rsc.launched
    /\ rsc.params = <<None, <<"p">>>>
    /\ rsc.argv[2] = <<"mkflat", ",", ",", "p">>

\* The flatlist text for the first n entries of a job: the header, then
\* one line per entry in the order of the entries.
ManifestLines(entries, ftype, n) ==
    <<[kind |-> "header", name |-> <<>>, type |-> ""]>>
    \o [k \in 1..n |->
          [kind |-> "entry",
           name |-> FlatlistEntryName(variant, entries[k].name),
           type |-> ftype]]

\* C11: the flatlist text of a job is determined by the entry sequence
\* (and the job's mkflat type): the header, exactly one line per input
\* entry in input order, then the closing brace; so the same entry
\* sequence always gives the same text.
C11_ManifestFollowsEntries ==
    /\ pkg.pc = "copy" =>
          pkg.flatlist_content =
             ManifestLines(pkg.entries, pkg.ftype, pkg.i - 1)
    /\ pkg.pc = "flatlist" =>
          pkg.flatlist_content =
             ManifestLines(pkg.entries, pkg.ftype, Len(pkg.entries))
    /\ pkg.pc \in {"mkflat", "move"} =>
          /\ staging[pkg.dir].flatlist =
                ManifestLines(pkg.entries, pkg.ftype, Len(pkg.entries))
                \o <<[kind |-> "close", name |-> <<>>, type |-> ""]>>
          /\ Len(staging[pkg.dir].flatlist) = pkg.nEntries + 2

C11_Witness_TwoLinesSameName ==
    /\ pkg.pc = "mkflat"
    /\ pkg.stem = "sounds"
    /\ pkg.nEntries = 2
    /\ Len(staging[pkg.dir].flatlist) = 4
    /\ staging[pkg.dir].flatlist[2] = staging[pkg.dir].flatlist[3]

\* C13: within one job no staged filename is copied into the staging
\* directory twice and the flatlist never lists the same logical name
\* twice: the files copied so far are as many distinct files in the
\* staging directory, and the entry lines name distinct logical names.
C13_StagingWriteOnce ==
    pkg.pc \in {"copy", "flatlist", "mkflat", "move"} =>
        /\ Cardinality(staging[pkg.dir].files) >= pkg.nCopied
        /\ \A j, k \in 1..Len(pkg.flatlist_content) :
              (j # k /\ pkg.flatlist_content[j].kind = "entry"
                     /\ pkg.flatlist_content[k].kind = "entry")
              => pkg.flatlist_content[j].name # pkg.flatlist_content[k].name

\* C14: any two invocations of the packager get different staging
\* directory paths, also two invocations for the same stem within the
\* same wall-clock second.
C14_DistinctStagingPaths ==
    (pkg.dir # <<>> /\ pkg.prevCall.dir # <<>>) =>
        pkg.dir # pkg.prevCall.dir

\* The filename ends with the given dotted parts, compared in lower case.
EndsWith(name, suffix) ==
    /\ Len(name) >= Len(suffix)
    /\ \A k \in 1..Len(suffix) :
         LowerTok(name[Len(name) - Len(suffix) + k]) = suffix[k]

\* The dotted parts the entry name no longer has.
Removed == SubSeq(nameIn, Len(nameOut) + 1, Len(nameIn))

C15_SlugMyModv2 ==
    (slugIn = ModNameExample /\ slugOut # None) =>
        /\ slugOut = <<"M", "y", "_", "M", "o", "d", "_", "v", "2">>
        /\ InstallerModPath(slugOut) =
             <<"m", "o", "d", "s", "/",
               "M", "y", "_", "M", "o", "d", "_", "v", "2">>

\* C15: for the Mod Name "My Mod! v2" the install-path segment is
\* My_Mod__v2 (one underscore for the "!", one for the space after it)
\* and the installer path mods/My_Mod__v2.
C15_SlugMyMod__v2 ==
    (slugIn = ModNameExample /\ slugOut # None) =>
        /\ slugOut = <<"M", "y", "_", "M", "o", "d", "_", "_", "v", "2">>
        /\ InstallerModPath(slugOut) =
             <<"m", "o", "d", "s", "/",
               "M", "y", "_", "M", "o", "d", "_", "_", "v", "2">>

\* The segment of "My Mod! v2" has been computed.
C15_Witness_ExampleSlugged ==
    /\ slugIn = ModNameExample
    /\ slugOut # None
    /\ Len(slugOut) = Len(slugIn)

\* C16: for every Mod Name, the empty one, whitespace only and invalid
\* characters only included, the segment is non-empty, is made of
\* letters, digits, underscores and hyphens only, and computing the
\* segment of the segment returns it unchanged.
C16_SlugTotalIdempotent ==
    slugOut # None =>
        /\ slugOut # <<>>
        /\ \A k \in 1..Len(slugOut) :
             slugOut[k] \in Letters \cup Digits \cup {"_", "-"}
        /\ SanitizedModName(slugOut) = slugOut

\* A Mod Name of whitespace only has been given the default segment.
C16_Witness_WhitespaceOnlyDefaults ==
    /\ slugIn = <<" ", "\t">>
    /\ slugOut = MyMod

\* _generate_desc_addpack_file has returned a value to its caller.
DescReturned == gen.pc = "idle" /\ gen.result # "none"

C18_EncodingsInOrderFirstSuccess ==
    LET t == gen.tried
    IN /\ Len(t) <= Len(Encodings)
       /\ \A k \in 1..Len(t) : t[k].enc = Encodings[k]
       /\ \A k \in 1..(Len(t) - 1) : ~t[k].ok
       /\ gen.content # NoContent =>
            /\ t # <<>> /\ t[Len(t)].ok
            /\ gen.content.glyphs = Decode(t[Len(t)].enc, tpl.bytes)
            /\ gen.pc # "read"
       /\ gen.pc = "write" => gen.content.text = tpl.text
       /\ gen.reason = "template read" <=>
            /\ Len(t) = Len(Encodings)
            /\ \A k \in 1..Len(t) : ~t[k].ok

\* windows-1251 was the first encoding to succeed, after utf-8-sig and
\* utf-8 had failed to decode the file.
C18_Witness_ThirdEncodingUsed ==
    /\ gen.pc = "write"
    /\ tpl.bytes = "cp1251"
    /\ Len(gen.tried) = 3
    /\ gen.content.glyphs = "cyrillic"

\* The values of the type assignments of a text, in order.
RECURSIVE TypesIn(_, _)
TypesIn(text, k) ==
    IF k > Len(text) THEN <<>>
    ELSE IF TypeMatchLen(text, k) > 0
    THEN <<text[k + TypeMatchLen(text, k) - 2]>>
         \o TypesIn(text, k + TypeMatchLen(text, k))
    ELSE TypesIn(text, k + 1)

\* C19: after type normalization the descriptor text holds exactly one
\* type assignment: ADDN or CAMP is kept with nothing appended, any
\* other value is replaced by RES, and a template without a type line
\* gets one RES line; for every spacing around "=".
C19_ExactlyOneTypeAssignment ==
    gen.prepared =>
        LET was == TypesIn(tpl.text, 1)
            now == TypesIn(gen.content.text, 1)
        IN /\ Len(now) = 1
           /\ now[1] = IF was # <<>> /\ was[1] \in {"ADDN", "CAMP"}
                       THEN was[1] ELSE "RES"
           /\ (was # <<>> /\ was[1] \in {"ADDN", "CAMP"}) =>
                gen.content.text = FillPlaceholders(tpl.text, slugIn)

\* No call deletes a directory, and an existing readme.txt keeps its
\* content.
NonDestructive ==
    imf.calls > 0 =>
        /\ imf.ws0.proj => ws.proj
        /\ imf.ws0.dirs \subseteq ws.dirs
        /\ imf.ws0.readme # "absent" => ws.readme = imf.ws0.readme

\* C20 as stated: a second call right after a successful first call
\* changes nothing in the workspace; no call deletes or modifies what
\* exists; an existing readme.txt is left unchanged.
C20_SecondCallChangesNothing ==
    /\ NonDestructive
    /\ (imf.calls >= 2 /\ imf.prevResult = "ok") => ws = imf.ws0

\* C20: a second call right after a successful first call that left a
\* readme.txt in place changes nothing in the workspace and succeeds; no
\* call deletes or modifies what exists; an existing readme.txt is left
\* unchanged.  (A call succeeds also when it could not write readme.txt,
\* and the next call then tries again.)
C20_SecondCallAfterReadmeChangesNothing ==
    /\ NonDestructive
    /\ (/\ imf.calls >= 2 /\ imf.prevResult = "ok"
        /\ imf.ws0.readme # "absent") =>
           /\ ws = imf.ws0
           /\ imf.result = "ok"

\* A second call has followed a successful call that wrote the template
\* readme.txt.
C20_Witness_SecondCallAfterTemplate ==
    /\ imf.calls = 2 /\ imf.prevResult = "ok"
    /\ imf.ws0.readme = "template"
    /\ imf.result = "ok" /\ ws = imf.ws0

\* C22: a failure to remove the staging directory never changes what
\* the packager returns: no exception escapes to the caller, and a call
\* that met no other fault still returns success.
C22_CleanupErrorNeverEscapes ==
    Returned =>
        /\ pkg.result \in {"ok", "fail"}
        /\ (/\ pkg.nMissing = 0 /\ ~pkg.copyError /\ ~pkg.writeError
            /\ ~pkg.invoked) => pkg.result = "ok"

\* C25: when the archiver is about to be invoked, the entry names of the
\* flatlist written to staging are exactly the entry names of the files
\* copied into staging, and no source of the job was missing.
C25_ManifestMatchesStaging ==
    pkg.pc = "mkflat" =>
        LET d == staging[pkg.dir]
            listed == {d.flatlist[k].name :
                         k \in {j \in 1..Len(d.flatlist) :
                                  d.flatlist[j].kind = "entry"}}
        IN /\ listed = {FlatlistEntryName(variant, f.name) : f \in d.files}
           /\ pkg.nMissing = 0

\* C26: whatever GUI operations came before, every launch of the vendor
\* executable uses <root>/starter.exe of the root directory that is the
\* working directory and that the handler resolves its parameters in;
\* the global executable path is that of the global root directory.
C26_LaunchUsesExeOfRoot ==
    rsc.launched =>
        /\ rsc.argv[1] = OsPathJoin(rsc.cwd, StarterExeName)
        /\ rsc.cwd = op.root
        /\ rsc.cwd = game_root_var
        /\ STARTER_EXE_PATH = update_starter_exe_path(GAME_ROOT_DIR)

\* ---------------------------------------------------------------- C24
ArchiveDone == arc.pc = "done" /\ arc.result \in {"success", "error"}

\* C24 (as stated): when create_mod_archive succeeds the zip of this run
\* is at the save path, the path ends in ".gt2extension", the archive
\* holds CORE and readme.txt, and neither the staging directory nor the
\* intermediate zip exists; the staging directory is also gone when the
\* creation failed.
C24_ArchiveComplete ==
    /\ (arc.pc = "done" /\ arc.result = "success") =>
          /\ arc.saved = "new"
          /\ arc.path[Len(arc.path)] = ".gt2extension"
          /\ arc.holds = {"CORE", "readme.txt"}
          /\ ~arc.staging_dir /\ ~arc.zip
    /\ (arc.pc = "done" /\ arc.result = "error") => ~arc.staging_dir

\* C24 (amended): when create_mod_archive succeeds the zip of this run is
\* at the save path, the path ends in ".gt2extension" in some letter
\* case (any other extension is replaced), the archive holds CORE, and
\* readme.txt exactly when it existed at the time of copying, the
\* intermediate zip does not exist; after success and after failure the
\* staging directory is gone unless removing it failed.
C24_ArchiveCompleteUpToCaseReadmeAndRemoval ==
    /\ (arc.pc = "done" /\ arc.result = "success") =>
          /\ arc.saved = "new"
          /\ LowerTok(arc.path[Len(arc.path)]) = ".gt2extension"
          /\ \A i \in 1..(Len(arc.path) - 1) : arc.path[i] \notin SaveExts
          /\ arc.holds = {"CORE"} \cup (IF arc.readme0 THEN {"readme.txt"}
                                       ELSE {})
          /\ ~arc.zip
    /\ ArchiveDone => (arc.staging_dir => arc.rmFails)

\* A run that succeeded for a path chosen with the "Zip files" type.
C24_Witness_ZipPathSaved ==
    /\ arc.pc = "done" /\ arc.result = "success"
    /\ arc.path = <<"D", "/", "Mod", ".gt2extension">>
    /\ arc.old0 = "old" /\ arc.holds = {"CORE", "readme.txt"}

\* ---------------------------------------------------------------- C30
\* C30: if a file exists at the save path and the creation fails at any
\* step, that file is still there with its old content.
C30_OldArchiveSurvivesFailure ==
    (arc.pc = "done" /\ arc.result = "error" /\ arc.old0 = "old") =>
        arc.saved = "old"

\* ---------------------------------------------------------------- C28
\* C28: after _generate_desc_addpack_file has returned success, or
\* failure of the compile step or of the move, neither temporary file
\* is left under users/modwork; and a compiled output left over from an
\* earlier run is never what a run that compiled nothing itself moves to
\* CORE/desc.addpack.
C28_NoTempLeftNoStaleMoved ==
    /\ (DescReturned /\ gen.reason \in {"none", "compile", "no output",
                                        "move"}) => tmpFiles = NoTmp
    /\ descFile # StaleDesc

\* ---------------------------------------------------------------- C29
\* C29: with delete-originals on, a .texture is deleted from the atf
\* folder only if its converted .dds was copied into the dds folder in
\* this run; a texture whose conversion or copy failed keeps its backup;
\* and once the archive has been dealt with, unpacked or not, the
\* temporary unpack directory is gone.
C29_DeleteOnlyConvertedAndCleanTemp ==
    /\ \A item \in ex.deleted :
         /\ ex.delete_atf
         /\ ContentOf(ex.dds, DdsFilename(item)) = "dds"
    /\ \A item \in ex.unconverted : item \in ex.atf
    /\ ex.pc = "done" => ~ex.tempDir

\* ---------------------------------------------------------------- C23
\* The archive a first-time run of the job makes.
FirstTimeArchive(stem) ==
    LET job == RetryJob(stem)
    IN [tag |-> "archive",
        lines |-> <<HeaderLine>>
                  \o [k \in 1..Len(job) |->
                        EntryLine(FlatlistEntryName(variant, job[k].name),
                                  MkflatType(stem))]
                  \o <<CloseLine>>,
        files |-> {job[k] : k \in 1..Len(job)}]

\* The invocation met no fault: every source was there and was copied,
\* the flatlist was written, the archiver exited with 0 and wrote its
\* output, the move did not fail.
NoFaultRun ==
    /\ pkg.nMissing = 0 /\ ~pkg.copyError /\ ~pkg.writeError
    /\ pkg.invoked => (pkg.mkOutcome = "exit0" /\ pkg.mkWrote)
    /\ pkg.mvOutcome \in {"none", "ok"}

\* C23: when an invocation has failed and the same job is invoked again
\* and meets no fault, it returns success and the archive at the fixed
\* output path is the one a first-time run makes, whatever the failed
\* invocation left in staging or at the output path.
C23_RetryAfterFailureSucceeds ==
    (Returned /\ pkg.calls = 2 /\ NoFaultRun) =>
        /\ op.name = "retry" /\ op.stem = pkg.stem
        /\ pkg.result = "ok"
        /\ packed[pkg.stem] = FirstTimeArchive(pkg.stem)

\* The first invocation was rejected after the archiver had written a
\* partial output and could not remove its staging directory; the retry
\* in the same second (the same staging directory in cnpmodtool.py) has
\* succeeded.
C23_Witness_RetryOverLeftovers ==
    /\ Returned /\ pkg.calls = 2 /\ NoFaultRun
    /\ variant = "cnp"
    /\ op.name = "retry" /\ op.result = "raised"
    /\ pkg.staging0 # <<>>
    /\ pkg.lastCall.dir = pkg.prevCall.dir
    /\ pkg.result = "ok"

\* ---------------------------------------------------------------- C21
\* The packager has been invoked in this run.
PackagerInvoked == pkg.calls > 0

\* The descriptor step has been entered.
DescEntered == gen # NoGen

\* C21: in a generate_mod_files run the layout is ensured first, then
\* the descriptor is generated once, then the packager runs at most once
\* per category; the packager is not invoked before the descriptor step
\* has succeeded, and not at all when the layout or the descriptor step
\* failed.
C21_LayoutThenDescThenPackagers ==
    /\ DescEntered =>
          /\ imf.calls = 1 /\ imf.result = "ok"
          /\ \A k \in 1..Len(paths_to_create(variant)) :
               paths_to_create(variant)[k] \in ws.dirs
    /\ PackagerInvoked =>
          /\ imf.result = "ok"
          /\ gen.pc = "idle" /\ gen.result = "ok"
          /\ descFile.tag = "compiled"
    /\ op.name = "generate" /\ op.pc # "validated" =>
          /\ Len(op.log) >= 1 /\ op.log[1] = "layout"
          /\ \A i \in 2..Len(op.log) :
               /\ i = 2 <=> op.log[i] = "desc"
               /\ \A j \in 2..Len(op.log) :
                    (i < j /\ i > 2) =>
                       /\ op.log[i] = StemOrder[1]
                       /\ op.log[j] = StemOrder[2]
          /\ pkg.calls = (IF Len(op.log) > 2 THEN Len(op.log) - 2 ELSE 0)

\* Both categories have been packaged after the layout and the
\* descriptor.
C21_Witness_BothCategoriesPackaged ==
    /\ op.name = "generate" /\ op.pc = "done"
    /\ op.log = <<"layout", "desc", "textures", "sounds">>
    /\ op.report = "success"

\* ---------------------------------------------------------------- C27
\* The run is over: it has shown its message box or was left by an
\* exception.
GenDone == op.name = "generate" /\ op.pc = "done" /\ Len(op.log) >= 2
           /\ op.log[2] = "desc" /\ ~DescFailed(gen.result) /\ op.sel # {}

\* The categories the selection has assets of.
SelectedStems == {s \in Stems : op.sel \cap AssetsOf(s) # {}}

\* C27: the categories are packaged independently and the report is
\* honest: a category that fails does not keep the others from being
\* packaged nor undo the descriptor; "success" is reported only if
\* every selected asset was handed to a packager call that returned
\* success; a warning or an error is reported whenever a selected asset
\* was missing or a category failed.
C27_IndependentAndHonest ==
    GenDone =>
        /\ \A s \in SelectedStems :
             s \in {op.log[i] : i \in 1..Len(op.log)}
                \/ op.sel \cap AssetsOf(s) \subseteq op.missing
        /\ descFile = op.desc1
        /\ op.report = "success" =>
              /\ op.failed = {}
              /\ \A s \in SelectedStems :
                   s \in {op.log[i] : i \in 1..Len(op.log)}
        /\ (op.missing # {} \/ op.failed # {}) =>
              op.report \in {"warning: no archives",
                             "warning: partial success", "error"}

====
